---- MODULE Spec2Model ----
(***************************************************************************)
(* Voice-Message-Generator: the App shell (tabs, style reference,          *)
(* localStorage), the OutreachForm workflow controller with its            *)
(* TemplateManager and VoiceRecorder children, the LibraryView, and the    *)
(* environment they talk to (the AI backend, the audio output, the         *)
(* microphone, a second browser tab on the same storage).                  *)
(*                                                                         *)
(* Text typed by the user or returned by the backend is a sequence of      *)
(* one-character strings; a nullable object is a sequence of length 0      *)
(* (null) or 1; a nullable string is the string or NULL.                   *)
(***************************************************************************)
EXTENDS Integers, Sequences, FiniteSets, TLC

\* ---------------------------------------------------------------- bounds
\* Date.now() takes the values 1..MaxNow.
MaxNow == 2
\* Backend calls still in flight whose component was unmounted, per kind.
MaxOrphans == 1
\* Length of the persisted script list.
MaxLibrary == 2
\* Length of the persisted template list.
MaxTemplates == 1
\* getUserMedia calls waiting for the microphone grant.
MaxMicPending == 2
\* Microphone streams acquired since the page was loaded.
MaxStreams == 2
\* Storage-change notifications not yet delivered to this tab.
MaxStorageEvents == 1
\* 16-bit samples of a PCM payload handed to decodeAudioData.
MaxSamples == 4
\* Characters of a string the extraction backend returns for a field.
MaxRawLen == 3
\* Characters of a script text handed to the marker stripping.
MaxTextLen == 4

\* ------------------------------------------------------------- JS values
NULL == "null"
None == <<>>
Some(v) == <<v>>
IsSome(m) == m # <<>>
Get(m) == m[1]

\* What awaiting a call that threw hands to the catch.
Threw(msg) == [ok |-> FALSE, message |-> msg]

\* response.text of a backend answer: empty, not JSON, or the JSON text of
\* the value v.
emptyText == [kind |-> "empty", value |-> None]

garbageText == [kind |-> "garbage", value |-> None]

jsonText(v) == [kind |-> "json", value |-> v]

\* String.prototype.trim over the whitespace the inputs can hold.
Whitespace == {" ", "\n"}

TrimIdx(s) == {i \in 1..Len(s) : s[i] \notin Whitespace}

Min(S) == CHOOSE x \in S : \A y \in S : x <= y

Max(S) == CHOOSE x \in S : \A y \in S : y <= x

trim(s) ==
    IF TrimIdx(s) = {} THEN <<>> ELSE SubSeq(s, Min(TrimIdx(s)), Max(TrimIdx(s)))

\* text.replace(/\[.*?\]/g, ''): from each "[" up to the nearest "]" after it
\* on the same line; a "[" that no "]" follows on its line stays.
LineTerminators == {"\n"}

\* The "]" that can close a marker opened at p.
ClosingOf(s, p) ==
    {i \in (p + 1)..Len(s) :
        s[i] = "]" /\ \A j \in (p + 1)..(i - 1) : s[j] \notin LineTerminators}

Openings(s) == {p \in 1..Len(s) : s[p] = "[" /\ ClosingOf(s, p) # {}}

\* The same without the g flag: the first marker only.
stripMarkers_first(s) ==
    IF Openings(s) = {} THEN s
    ELSE SubSeq(s, 1, Min(Openings(s)) - 1)
             \o SubSeq(s, Min(ClosingOf(s, Min(Openings(s)))) + 1, Len(s))

RECURSIVE stripMarkers(_)
stripMarkers(s) ==
    IF Openings(s) = {} THEN s
    ELSE SubSeq(s, 1, Min(Openings(s)) - 1)
             \o stripMarkers(SubSeq(s, Min(ClosingOf(s, Min(Openings(s)))) + 1, Len(s)))

\* s.split(/\s+/).length for a trimmed s: one more than its runs of
\* whitespace; the empty string splits into one empty string.
splitLength(s) ==
    IF s = <<>> THEN 1
    ELSE 1 + Cardinality({i \in 1..(Len(s) - 1) :
                             s[i] \in Whitespace /\ s[i + 1] \notin Whitespace})

\* JSON.stringify / JSON.parse of the values the application stores: records
\* of strings and finite numbers, and arrays of them. The stored item is the
\* JSON text; parse gives back the value the text denotes.
JSONstringify(v) == [json |-> v]

JSONparse(text) == text.json

\* ------------------------------------------------------------ vocabulary
GenerationStatus == {"IDLE", "LOADING", "SUCCESS", "ERROR"}

VoiceOption == {"Zephyr", "Puck", "Charon", "Kore", "Fenrir"}

Tones == {"Casual", "Professional", "Direct", "Warm"}

Goals == {"Permission to Send", "Testimonial/Feedback", "Book a Call"}

requiredFields == <<"ownerName", "businessName", "identifiedGap", "freeValue">>

TextFields == {requiredFields[i] : i \in 1..Len(requiredFields)}

TONE_VOICE_MAP ==
    [t \in Tones |->
        CASE t = "Casual" -> "Puck"
          [] t = "Professional" -> "Charon"
          [] t = "Direct" -> "Fenrir"
          [] t = "Warm" -> "Kore"]

\* TONE_VOICE_MAP[value] || 'Zephyr'
ToneVoice_default(value) == "Zephyr"

ToneVoice(value) ==
    IF value \in DOMAIN TONE_VOICE_MAP THEN TONE_VOICE_MAP[value] ELSE "Zephyr"

\* field.replace(/([A-Z])/g, ' $1').toLowerCase()
FieldLabel(field) ==
    CASE field = "ownerName" -> "owner name"
      [] field = "businessName" -> "business name"
      [] field = "identifiedGap" -> "identified gap"
      [] field = "freeValue" -> "free value"

ValidationMessage(field) ==
    "Please provide a valid value for " \o FieldLabel(field) \o "."

GenerationErrorMessage ==
    "The script generator encountered an error. Please check your internet connection and try again."

ExtractionErrorMessage ==
    "Unable to parse the audio research. Please speak more clearly or fill fields manually."

SpeechErrorMessage == "Voice synthesis failed. Please try a different persona."

\* error.message of what the browser throws: atob or the Int16Array
\* constructor on bad bytes, a property read on undefined.
DecodeErrorMessage == "The string to be decoded is not correctly encoded."

TypeErrorMessage == "Cannot read properties of undefined (reading 'replace')"

MicErrorMessage == "Microphone access denied or not available."

\* ----------------------------------------------------------------- state
VARIABLES
    activeTab,          \* App: 'create' | 'library'
    selectedReference,  \* App: SavedScript | null
    localStorage,       \* the four persisted items, each absent or a string
    form,               \* OutreachForm's state and refs (mounted on 'create')
    tm,                 \* TemplateManager's state (child of OutreachForm)
    recorder,           \* VoiceRecorder's state and refs (child of OutreachForm)
    library,            \* LibraryView's state and refs (mounted on 'library')
    net,                \* backend calls in flight
    clips,              \* synthesized clips the audio output is playing
    mic,                \* getUserMedia calls and the recordings they started
    now,                \* Date.now()
    storageEvents,      \* 'storage' notifications queued for this tab
    lastOp,             \* history: the handler or callback that ran last
    lastData            \* history: what the last finished backend call returned

vars ==
    <<activeTab, selectedReference, localStorage, form, tm, recorder, library,
      net, clips, mic, now, storageEvents, lastOp, lastData>>

formDataInit ==
    [ownerName |-> <<>>, businessName |-> <<>>, identifiedGap |-> <<>>,
     freeValue |-> <<>>, platform |-> "Instagram", tone |-> "Casual",
     goal |-> "Permission to Send", selectedVoice |-> "Puck"]

\* OutreachForm's useState/useRef initial values. audioContext is NULL until
\* the first preview creates it; activeSource is whether activeSourceRef holds
\* a source node.
FormInit ==
    [formData |-> formDataInit, activeTemplate |-> None, result |-> None,
     status |-> "IDLE", errorMessage |-> NULL, ttsLoading |-> FALSE,
     isPlaying |-> FALSE, isSavedInLibrary |-> FALSE, audioContext |-> NULL,
     activeSource |-> FALSE]

emptyTemplate == [id |-> NULL, name |-> <<>>, content |-> <<>>]

\* mediaRecorder is whether mediaRecorderRef holds a MediaRecorder.
RecorderInit ==
    [isRecording |-> FALSE, isProcessing |-> FALSE, error |-> NULL,
     mediaRecorder |-> FALSE]

LibraryInit ==
    [audioContext |-> NULL, scripts |-> <<>>, searchTerm |-> <<>>,
     playingId |-> NULL, loadingId |-> NULL]

emptyStorage ==
    [app_active_tab |-> None, app_active_reference |-> None,
     voice_note_library |-> None, voice_note_templates |-> None]

\* localStorage.getItem(key) || fallback, for an item holding JSON
getJSON(ls, key, fallback) ==
    IF IsSome(ls[key]) THEN JSONparse(Get(ls[key])) ELSE fallback

\* TemplateManager's mount effect: load the templates. (Its onSelect(null)
\* leaves the fresh form's activeTemplate null.)
MountTemplateManager(ls) ==
    [templates |-> getJSON(ls, "voice_note_templates", <<>>),
     isEditing |-> FALSE, currentTemplate |-> emptyTemplate]

\* LibraryView's mount effect: loadScripts()
MountLibrary(ls) ==
    IF IsSome(ls.voice_note_library)
    THEN [LibraryInit EXCEPT !.scripts = JSONparse(Get(ls.voice_note_library))]
    ELSE LibraryInit

\* ttsText is the text the mounted form's speech call in flight was asked to
\* voice.
NetInit ==
    [gen |-> None, orphanGen |-> 0,
     tts |-> FALSE, orphanTts |-> 0, orphanTtsClosed |-> 0,
     libTts |-> None, orphanLibTts |-> 0, ttsText |-> None]

\* How many clips each owner has playing: the mounted form's context, the
\* mounted library's context, contexts whose component is gone.
ClipsInit == [form |-> 0, library |-> 0, orphans |-> 0]

\* A recording is the stream one getUserMedia call acquired and the
\* MediaRecorder on it: "recording", "stopping" (stop() called, onstop not yet
\* fired), "reading" (FileReader at work), "extracting" (processAudioResearch
\* in flight); after that it is forgotten. The stream's tracks are stopped in
\* onstop.
RecordingStates == {"recording", "stopping", "reading", "extracting"}

noRecordings == [st \in RecordingStates |-> 0]

\* pending: getUserMedia calls of the mounted recorder not yet answered;
\* live[st]: how many recordings started by the mounted recorder are in state
\* st; orphanPending, orphan[st]: the same for recorders that were unmounted.
MicInit ==
    [pending |-> 0, orphanPending |-> 0, live |-> noRecordings,
     orphan |-> noRecordings]

\* App's state initialisers
initialTab(ls) ==
    IF IsSome(ls.app_active_tab) THEN Get(ls.app_active_tab) ELSE "create"

initialReference_ifListed(ls) ==
    IF /\ IsSome(ls.app_active_reference)
       /\ \E i \in DOMAIN getJSON(ls, "voice_note_library", <<>>) :
              getJSON(ls, "voice_note_library", <<>>)[i]
                  = JSONparse(Get(ls.app_active_reference))
    THEN Some(JSONparse(Get(ls.app_active_reference))) ELSE None

initialReference(ls) ==
    IF IsSome(ls.app_active_reference)
    THEN Some(JSONparse(Get(ls.app_active_reference))) ELSE None

persistSession_keepStored(ls, tab, ref) ==
    [ls EXCEPT !.app_active_tab = Some(tab),
               !.app_active_reference =
                   IF IsSome(ref) THEN Some(JSONstringify(Get(ref))) ELSE @]

\* App's two persistence effects
persistSession(ls, tab, ref) ==
    [ls EXCEPT !.app_active_tab = Some(tab),
               !.app_active_reference =
                   IF IsSome(ref) THEN Some(JSONstringify(Get(ref))) ELSE None]

TemplateManagerInit == MountTemplateManager(emptyStorage)

\* The page is loaded over storage ls: App mounts, then the child of the
\* restored tab. Nothing of the previous page survives but the storage.
Booted(ls) ==
    [activeTab |-> initialTab(ls),
     selectedReference |-> initialReference(ls),
     localStorage |-> persistSession(ls, initialTab(ls), initialReference(ls)),
     tm |-> IF initialTab(ls) = "create" THEN MountTemplateManager(ls)
            ELSE TemplateManagerInit,
     library |-> IF initialTab(ls) = "library" THEN MountLibrary(ls)
                 ELSE LibraryInit]

\* The state after the page is loaded over storage ls.
InitOver(ls) ==
    /\ activeTab = Booted(ls).activeTab
    /\ selectedReference = Booted(ls).selectedReference
    /\ localStorage = Booted(ls).localStorage
    /\ form = FormInit
    /\ tm = Booted(ls).tm
    /\ recorder = RecorderInit
    /\ library = Booted(ls).library
    /\ net = NetInit
    /\ clips = ClipsInit
    /\ mic = MicInit
    /\ now = 1
    /\ storageEvents = 0
    /\ lastOp = "load"
    /\ lastData = None

\* A first visit: nothing is stored.
Init == InitOver(emptyStorage)

\* History bookkeeping of a step: which handler ran, for the handlers the
\* properties below speak about ("-" for the others), and the argument or the
\* awaited value it worked on.
Observed ==
    {"load", "updateField", "handleGenerate", "handleGenerateSettled",
     "handleSaveToLibrary", "handleAudioCapturedSettled",
     "LibraryView_handleDelete", "LibraryView_handleDeleteDeclined",
     "decodeAudioData", "handlePlayVoiceSettled", "setSearchTerm", "cleanText"}

Ran(op) == lastOp' = (IF op \in Observed THEN op ELSE "-") /\ lastData' = None

Returned(op, data) ==
    IF op \in Observed THEN lastOp' = op /\ lastData' = Some(data)
    ELSE lastOp' = "-" /\ lastData' = None

Bit(b) == IF b THEN 1 ELSE 0

\* ------------------------------------------------------------------- App
\* What unmounting the child of tab `left` does to the calls in flight: the
\* calls go on, their continuations run on a component that is gone.
\* OutreachForm's cleanup closes its AudioContext (when it has one) and keeps
\* the ref; LibraryView has no cleanup.
NetAfterUnmount(left) ==
    IF left = "create"
    THEN [net EXCEPT !.gen = None,
                     !.orphanGen = @ + Bit(IsSome(net.gen)),
                     !.tts = FALSE,
                     !.orphanTts = @ + Bit(net.tts /\ form.audioContext = NULL),
                     !.orphanTtsClosed = @ + Bit(net.tts /\ form.audioContext # NULL),
                     !.ttsText = None]
    ELSE [net EXCEPT !.libTts = None,
                     !.orphanLibTts = @ + Bit(IsSome(net.libTts))]

ClipsAfterUnmount(left) ==
    IF left = "create"
    THEN [clips EXCEPT !.form = 0]
    ELSE [clips EXCEPT !.library = 0, !.orphans = @ + clips.library]

\* VoiceRecorder's cleanup closes the visualizer's AudioContext; the stream
\* and the MediaRecorder are left as they are.
MicAfterUnmount(left) ==
    IF left = "create"
    THEN [mic EXCEPT !.pending = 0,
                     !.orphanPending = @ + mic.pending,
                     !.live = noRecordings,
                     !.orphan = [st \in RecordingStates |-> @[st] + mic.live[st]]]
    ELSE mic

WithinOrphanBounds(n, c, m) ==
    /\ n.orphanGen <= MaxOrphans
    /\ n.orphanTts <= MaxOrphans
    /\ n.orphanTtsClosed <= MaxOrphans
    /\ n.orphanLibTts <= MaxOrphans
    /\ c.orphans <= MaxOrphans
    /\ m.orphanPending <= MaxOrphans

\* A render with a new activeTab and selectedReference: the persistence
\* effects run, the old tab's child unmounts, the new tab's child mounts.
Switch(tab, ref) ==
    /\ WithinOrphanBounds(NetAfterUnmount(activeTab), ClipsAfterUnmount(activeTab),
                          MicAfterUnmount(activeTab))
    /\ activeTab' = tab
    /\ selectedReference' = ref
    /\ localStorage' = persistSession(localStorage, tab, ref)
    /\ form' = FormInit
    /\ recorder' = RecorderInit
    /\ tm' = IF tab = "create" THEN MountTemplateManager(localStorage)
             ELSE TemplateManagerInit
    /\ library' = IF tab = "library" THEN MountLibrary(localStorage) ELSE LibraryInit
    /\ net' = NetAfterUnmount(activeTab)
    /\ clips' = ClipsAfterUnmount(activeTab)
    /\ mic' = MicAfterUnmount(activeTab)

\* The tab buttons. React drops an update to the value the state already has.
setActiveTab(tab) ==
    /\ tab # activeTab
    /\ Switch(tab, selectedReference)
    /\ UNCHANGED <<now, storageEvents>>
    /\ Ran("setActiveTab")

handleUseAsReference_keepTab(script) ==
    /\ activeTab = "library"
    /\ Switch("library", Some(script))
    /\ UNCHANGED <<now, storageEvents>>
    /\ Ran("handleUseAsReference")

\* "Use as style" on a card of the library
handleUseAsReference(script) ==
    /\ activeTab = "library"
    /\ Switch("create", Some(script))
    /\ UNCHANGED <<now, storageEvents>>
    /\ Ran("handleUseAsReference")

\* The X of the "Active Style Reference" banner, rendered while a reference
\* is set.
onClearReference ==
    /\ activeTab = "create"
    /\ IsSome(selectedReference)
    /\ selectedReference' = None
    /\ localStorage' = persistSession(localStorage, activeTab, None)
    /\ UNCHANGED <<activeTab, form, tm, recorder, library, net, clips, mic, now,
                   storageEvents>>
    /\ Ran("onClearReference")

\* The browser reloads the page: the old document, its calls, its audio and
\* its streams are gone.
Reload ==
    /\ activeTab' = Booted(localStorage).activeTab
    /\ selectedReference' = Booted(localStorage).selectedReference
    /\ localStorage' = Booted(localStorage).localStorage
    /\ form' = FormInit
    /\ tm' = Booted(localStorage).tm
    /\ recorder' = RecorderInit
    /\ library' = Booted(localStorage).library
    /\ net' = NetInit
    /\ clips' = ClipsInit
    /\ mic' = MicInit
    /\ storageEvents' = 0
    /\ UNCHANGED now
    /\ Ran("load")

\* ---------------------------------------------------------- OutreachForm
Mounted == activeTab = "create"

updateField(field, value) ==
    /\ Mounted
    /\ form' = [form EXCEPT
                  !.formData = [@ EXCEPT
                      ![field] = value,
                      !.selectedVoice =
                          IF field = "tone" THEN ToneVoice(value)
                          ELSE IF field = "selectedVoice" THEN value ELSE @]]
    /\ UNCHANGED <<activeTab, selectedReference, localStorage, tm, recorder,
                   library, net, clips, mic, now, storageEvents>>
    /\ Returned("updateField", field)

InvalidValue_untrimmed(value) == value = <<>> \/ Len(value) < 2

\* !formData[field] || formData[field].trim().length < 2
InvalidValue(value) == value = <<>> \/ Len(trim(value)) < 2

InvalidFields(formData) ==
    {i \in 1..Len(requiredFields) : InvalidValue(formData[requiredFields[i]])}

validateFields_always(formData) == TRUE

validateFields(formData) == InvalidFields(formData) = {}

\* the message validateFields sets before it returns false
validateFieldsMessage(formData) ==
    ValidationMessage(requiredFields[Min(InvalidFields(formData))])

\* The generate button is disabled while LOADING; the handler checks again.
handleGenerate ==
    /\ Mounted
    /\ IF form.status = "LOADING"
       THEN UNCHANGED <<form, net>>
       ELSE IF ~validateFields(form.formData)
       THEN /\ form' = [form EXCEPT
                          !.errorMessage = validateFieldsMessage(form.formData)]
            /\ UNCHANGED net
       ELSE /\ form' = [form EXCEPT !.errorMessage = NULL, !.status = "LOADING",
                                    !.result = None]
            /\ net' = [net EXCEPT !.gen =
                          Some([input |-> form.formData,
                                template |-> form.activeTemplate,
                                reference |-> selectedReference])]
    /\ UNCHANGED <<activeTab, selectedReference, localStorage, tm, recorder,
                   library, clips, mic, now, storageEvents>>
    /\ Ran("handleGenerate")

\* A backend answer: the call rejects, or resolves with response.text being
\* empty, not JSON, or the JSON text of a value (null, or an object whose
\* script and followUp may each be missing).
emptyObject == [script |-> None, followUp |-> None]

\* text.replace(/```json|```/gi, '').trim(), then JSON.parse
parseSafeJSON(text) ==
    IF text.kind = "json" THEN [ok |-> TRUE, value |-> text.value]
    ELSE [ok |-> FALSE, value |-> None]

\* services/geminiService generateVoiceNote, from the backend's answer on:
\* parseSafeJSON(response.text || '{}') as VoiceNoteResult, every throw
\* replaced by the generation error.
generateVoiceNote(resp) ==
    IF resp.kind = "reject" THEN [ok |-> FALSE, value |-> None]
    ELSE IF resp.text.kind = "empty" THEN [ok |-> TRUE, value |-> Some(emptyObject)]
    ELSE parseSafeJSON(resp.text)

\* handleGenerate after its await, and the [result] effect of the render
\* that follows.
handleGenerateSettled(resp) ==
    /\ IsSome(net.gen)
    /\ IF generateVoiceNote(resp).ok
       THEN form' = [form EXCEPT
                       !.result = generateVoiceNote(resp).value,
                       !.status = "SUCCESS",
                       !.isSavedInLibrary =
                           IF IsSome(generateVoiceNote(resp).value) THEN FALSE ELSE @,
                       !.errorMessage =
                           IF IsSome(generateVoiceNote(resp).value) THEN NULL ELSE @]
       ELSE form' = [form EXCEPT !.errorMessage = GenerationErrorMessage,
                                 !.status = "ERROR"]
    /\ net' = [net EXCEPT !.gen = None]
    /\ UNCHANGED <<activeTab, selectedReference, localStorage, tm, recorder,
                   library, clips, mic, now, storageEvents>>
    /\ Returned("handleGenerateSettled", generateVoiceNote(resp))

\* A generate call of an unmounted form settles: its setState calls do nothing.
orphanGenerateSettled ==
    /\ net.orphanGen > 0
    /\ net' = [net EXCEPT !.orphanGen = @ - 1]
    /\ UNCHANGED <<activeTab, selectedReference, localStorage, form, tm, recorder,
                   library, clips, mic, now, storageEvents>>
    /\ Ran("orphanGenerateSettled")

\* result?.script is truthy
HasScript(result) ==
    /\ IsSome(result)
    /\ IsSome(Get(result).script)
    /\ Get(Get(result).script) # <<>>

prependToLibrary_append(ls, newEntry) ==
    [ls EXCEPT !.voice_note_library =
        Some(JSONstringify(getJSON(ls, "voice_note_library", <<>>) \o <<newEntry>>))]

\* JSON.parse(localStorage.getItem('voice_note_library') || '[]'), then
\* setItem with the new entry in front
prependToLibrary(ls, newEntry) ==
    [ls EXCEPT !.voice_note_library =
        Some(JSONstringify(<<newEntry>> \o getJSON(ls, "voice_note_library", <<>>)))]

\* The SavedScript handleSaveToLibrary builds when Date.now() reads t.
newEntryOf(formData, result, t) ==
    [ownerName |-> formData.ownerName,
     businessName |-> formData.businessName,
     id |-> ToString(t),
     content |-> Get(Get(result).script),
     title |-> formData.ownerName \o <<" ", "@", " ">> \o formData.businessName,
     createdAt |-> t]

handleSaveToLibrary_unmarked(t) ==
    /\ Mounted
    /\ IsSome(form.result)
    /\ ~form.isSavedInLibrary
    /\ t >= now
    /\ IF ~HasScript(form.result)
       THEN UNCHANGED <<localStorage, now>>
       ELSE /\ Len(getJSON(localStorage, "voice_note_library", <<>>)) < MaxLibrary
            /\ localStorage' =
                   prependToLibrary(localStorage,
                                    newEntryOf(form.formData, form.result, t))
            /\ now' = t
    /\ UNCHANGED <<activeTab, selectedReference, form, tm, recorder, library, net,
                   clips, mic, storageEvents>>
    /\ Ran("handleSaveToLibrary")

\* The bookmark button of the result panel, disabled once saved. t is what
\* Date.now() reads.
handleSaveToLibrary(t) ==
    /\ Mounted
    /\ IsSome(form.result)
    /\ ~form.isSavedInLibrary
    /\ t >= now
    /\ IF ~HasScript(form.result)
       THEN UNCHANGED <<form, localStorage, now>>
       ELSE /\ Len(getJSON(localStorage, "voice_note_library", <<>>)) < MaxLibrary
            /\ localStorage' =
                   prependToLibrary(localStorage,
                                    newEntryOf(form.formData, form.result, t))
            /\ form' = [form EXCEPT !.isSavedInLibrary = TRUE]
            /\ now' = t
    /\ UNCHANGED <<activeTab, selectedReference, tm, recorder, library, net,
                   clips, mic, storageEvents>>
    /\ Ran("handleSaveToLibrary")

cleanText_first(text) == trim(stripMarkers_first(text))

\* generateSpeech: text.replace(/\[.*?\]/g, '').trim(), the text of the prompt
cleanText(text) == trim(stripMarkers(text))

\* The two strippings of a script text: the replace alone, and the replace
\* with the trim (generateSpeech; estimatedDuration before it splits).
callCleanText(text) ==
    /\ UNCHANGED <<activeTab, selectedReference, localStorage, form, tm, recorder,
                   library, net, clips, mic, now, storageEvents>>
    /\ Returned("cleanText",
                [text |-> text, stripped |-> stripMarkers(text),
                 clean |-> cleanText(text)])

round_down(num, den) == num \div den

\* Math.round of the non-negative fraction num / den
round(num, den) == (2 * num + den) \div (2 * den)

\* The estimatedDuration memo: 0 without a script, else the words of the
\* script without its markers at 140 words a minute, rounded to seconds.
estimatedDuration(result) ==
    IF ~HasScript(result) THEN 0
    ELSE round(splitLength(trim(stripMarkers(Get(Get(result).script)))) * 60, 140)

\* The durationStatus memo
durationStatus(duration) ==
    IF duration < 30 THEN "Too Short"
    ELSE IF duration <= 55 THEN "Perfect Length"
    ELSE "A Bit Long"

\* error.message of what the Int16Array constructor and createBuffer throw
RangeErrorMessage == "byte length of Int16Array should be a multiple of 2"

NotSupportedMessage == "The number of frames provided (0) is less than or equal to the minimum bound (0)."

\* new Int16Array(data.buffer): the bytes taken two by two, low byte first,
\* as signed 16-bit integers.
Int16At(data, i) ==
    IF data[2 * i - 1] + 256 * data[2 * i] >= 32768
    THEN data[2 * i - 1] + 256 * data[2 * i] - 65536
    ELSE data[2 * i - 1] + 256 * data[2 * i]

Int16Array(data) == [i \in 1..(Len(data) \div 2) |-> Int16At(data, i)]

\* The value x / 32768.0, kept as the fraction it is (a Float32Array holds it
\* exactly).
Float32(x) == [num |-> x, den |-> 32768]

decodeAudioData_planar(data, numChannels) ==
    IF Len(data) % 2 # 0 THEN Threw(RangeErrorMessage)
    ELSE IF (Len(data) \div 2) \div numChannels = 0 THEN Threw(NotSupportedMessage)
    ELSE [ok |-> TRUE,
          value |->
              [channel \in 1..numChannels |->
                  [i \in 1..((Len(data) \div 2) \div numChannels) |->
                      Float32(Int16Array(data)[
                          (channel - 1) * ((Len(data) \div 2) \div numChannels) + i])]]]

\* decodeAudioData: frameCount = dataInt16.length / numChannels; createBuffer
\* takes its whole part and throws on 0; channelData[i] =
\* dataInt16[i * numChannels + channel] / 32768.0, a write past the end of
\* channelData doing nothing. Channels and frames count from 1 here.
decodeAudioData(data, numChannels) ==
    IF Len(data) % 2 # 0 THEN Threw(RangeErrorMessage)
    ELSE IF (Len(data) \div 2) \div numChannels = 0 THEN Threw(NotSupportedMessage)
    ELSE [ok |-> TRUE,
          value |->
              [channel \in 1..numChannels |->
                  [i \in 1..((Len(data) \div 2) \div numChannels) |->
                      Float32(Int16Array(data)[(i - 1) * numChannels + channel])]]]

\* A call of the exported decodeAudioData on the bytes data.
callDecodeAudioData(data, numChannels) ==
    /\ UNCHANGED <<activeTab, selectedReference, localStorage, form, tm, recorder,
                   library, net, clips, mic, now, storageEvents>>
    /\ Returned("decodeAudioData",
                [data |-> data, numChannels |-> numChannels,
                 decoded |-> decodeAudioData(data, numChannels)])

\* The voice-preview button of the result panel (disabled while loading or
\* playing; the handler checks again). result.script.replace throws at once
\* when the result holds no script.
handlePlayTTS ==
    /\ Mounted
    /\ IsSome(form.result)
    /\ IF form.ttsLoading \/ form.isPlaying
       THEN UNCHANGED <<form, net>>
       ELSE IF ~IsSome(Get(form.result).script)
       THEN /\ form' = [form EXCEPT !.errorMessage = TypeErrorMessage,
                                    !.ttsLoading = FALSE]
            /\ UNCHANGED net
       ELSE /\ form' = [form EXCEPT !.ttsLoading = TRUE, !.errorMessage = NULL]
            /\ net' = [net EXCEPT !.tts = TRUE,
                                  !.ttsText = Some(cleanText(Get(Get(form.result).script)))]
    /\ UNCHANGED <<activeTab, selectedReference, localStorage, tm, recorder,
                   library, clips, mic, now, storageEvents>>
    /\ Ran("handlePlayTTS")

\* What a speech call gives: the call rejects ("reject"), answers without an
\* audio payload ("empty"), answers with bytes decodeBase64/decodeAudioData
\* throw on ("undecodable"), or with PCM audio ("audio").
SpeechOutcomes == {"reject", "empty", "undecodable", "audio"}

\* The same, and PCM audio whose source.start() throws ("unstartable").
PlaybackOutcomes == SpeechOutcomes \cup {"unstartable"}

generateSpeechOk(outcome) == outcome \in {"undecodable", "unstartable", "audio"}

StartErrorMessage == "Failed to execute 'start' on 'AudioBufferSourceNode'."

\* LibraryView's alert(...)
PlaybackAlert == "Failed to generate audio. Please try again."

\* handlePlayTTS after its await: the context is created once base64 audio
\* is there, decoding may throw, then the source is kept in activeSourceRef,
\* isPlaying is set and the clip starts; a throw of start() is caught like the
\* others.
handlePlayTTSSettled(outcome) ==
    /\ net.tts
    /\ net' = [net EXCEPT !.tts = FALSE, !.ttsText = None]
    /\ IF ~generateSpeechOk(outcome)
       THEN /\ form' = [form EXCEPT !.errorMessage = SpeechErrorMessage,
                                    !.ttsLoading = FALSE]
            /\ UNCHANGED clips
       ELSE IF outcome = "undecodable"
       THEN /\ form' = [form EXCEPT !.errorMessage = DecodeErrorMessage,
                                    !.ttsLoading = FALSE,
                                    !.audioContext = "open"]
            /\ UNCHANGED clips
       ELSE IF outcome = "unstartable"
       THEN /\ form' = [form EXCEPT !.errorMessage = StartErrorMessage,
                                    !.ttsLoading = FALSE,
                                    !.isPlaying = TRUE,
                                    !.audioContext = "open",
                                    !.activeSource = TRUE]
            /\ clips' = [clips EXCEPT !.form = @ - Bit(form.activeSource /\ @ > 0)]
       ELSE /\ form' = [form EXCEPT !.audioContext = "open", !.activeSource = TRUE,
                                    !.isPlaying = TRUE, !.ttsLoading = FALSE]
            /\ clips' = [clips EXCEPT !.form = (@ - Bit(form.activeSource /\ @ > 0)) + 1]
    /\ UNCHANGED <<activeTab, selectedReference, localStorage, tm, recorder,
                   library, mic, now, storageEvents>>
    /\ Ran("handlePlayTTSSettled")

\* source.onended of the form's clip
formClipEnded ==
    /\ clips.form > 0
    /\ clips' = [clips EXCEPT !.form = @ - 1]
    /\ form' = [form EXCEPT !.isPlaying = FALSE, !.activeSource = FALSE]
    /\ UNCHANGED <<activeTab, selectedReference, localStorage, tm, recorder,
                   library, net, mic, now, storageEvents>>
    /\ Ran("formClipEnded")

\* A speech call of an unmounted form settles. Its audioContextRef was null:
\* the continuation creates a context nobody will close and starts the clip.
orphanTTSSettled(outcome) ==
    /\ net.orphanTts > 0
    /\ net' = [net EXCEPT !.orphanTts = @ - 1]
    /\ IF outcome = "audio"
       THEN /\ clips.orphans < MaxOrphans
            /\ clips' = [clips EXCEPT !.orphans = @ + 1]
       ELSE UNCHANGED clips
    /\ UNCHANGED <<activeTab, selectedReference, localStorage, form, tm, recorder,
                   library, mic, now, storageEvents>>
    /\ Ran("orphanTTSSettled")

\* The same, the ref holding the context the cleanup closed: a closed context
\* renders nothing.
orphanTTSClosedSettled ==
    /\ net.orphanTtsClosed > 0
    /\ net' = [net EXCEPT !.orphanTtsClosed = @ - 1]
    /\ UNCHANGED <<activeTab, selectedReference, localStorage, form, tm, recorder,
                   library, clips, mic, now, storageEvents>>
    /\ Ran("orphanTTSClosedSettled")

\* A clip whose component is gone plays to its end.
orphanClipEnded ==
    /\ clips.orphans > 0
    /\ clips' = [clips EXCEPT !.orphans = @ - 1]
    /\ UNCHANGED <<activeTab, selectedReference, localStorage, form, tm, recorder,
                   library, net, mic, now, storageEvents>>
    /\ Ran("orphanClipEnded")

\* ------------------------------------------------------- TemplateManager
\* The template list (select, edit, delete) is rendered while not editing,
\* the editor while editing.
TemplateManager_createNew ==
    /\ Mounted
    /\ ~tm.isEditing
    /\ tm' = [tm EXCEPT !.currentTemplate = emptyTemplate, !.isEditing = TRUE]
    /\ UNCHANGED <<activeTab, selectedReference, localStorage, form, recorder,
                   library, net, clips, mic, now, storageEvents>>
    /\ Ran("TemplateManager_createNew")

\* The editor's two inputs
TemplateManager_input(name, content) ==
    /\ Mounted
    /\ tm.isEditing
    /\ tm' = [tm EXCEPT !.currentTemplate = [@ EXCEPT !.name = name,
                                                      !.content = content]]
    /\ UNCHANGED <<activeTab, selectedReference, localStorage, form, recorder,
                   library, net, clips, mic, now, storageEvents>>
    /\ Ran("TemplateManager_input")

TemplateManager_cancel ==
    /\ Mounted
    /\ tm.isEditing
    /\ tm' = [tm EXCEPT !.currentTemplate = emptyTemplate, !.isEditing = FALSE]
    /\ UNCHANGED <<activeTab, selectedReference, localStorage, form, recorder,
                   library, net, clips, mic, now, storageEvents>>
    /\ Ran("TemplateManager_cancel")

TemplateManager_handleEdit(template) ==
    /\ Mounted
    /\ ~tm.isEditing
    /\ tm' = [tm EXCEPT !.currentTemplate = template, !.isEditing = TRUE]
    /\ UNCHANGED <<activeTab, selectedReference, localStorage, form, recorder,
                   library, net, clips, mic, now, storageEvents>>
    /\ Ran("TemplateManager_handleEdit")

\* setTemplates(newTemplates); localStorage.setItem(...)
saveTemplates(ls, newTemplates) ==
    [ls EXCEPT !.voice_note_templates = Some(JSONstringify(newTemplates))]

\* templates.map(t => t.id === currentTemplate.id ? currentTemplate : t)
replaceTemplate(templates, current) ==
    [i \in DOMAIN templates |->
        IF templates[i].id = current.id THEN current ELSE templates[i]]

\* The editor's save button. An edited template is written to the list and
\* not handed to onSelect; a new one is appended and selected.
TemplateManager_handleSave(t) ==
    /\ Mounted
    /\ tm.isEditing
    /\ t >= now
    /\ IF tm.currentTemplate.name = <<>> \/ tm.currentTemplate.content = <<>>
       THEN UNCHANGED <<tm, localStorage, form, now>>
       ELSE IF tm.currentTemplate.id # NULL
       THEN /\ tm' = [templates |-> replaceTemplate(tm.templates, tm.currentTemplate),
                      isEditing |-> FALSE, currentTemplate |-> emptyTemplate]
            /\ localStorage' =
                   saveTemplates(localStorage,
                                 replaceTemplate(tm.templates, tm.currentTemplate))
            /\ UNCHANGED <<form, now>>
       ELSE /\ Len(tm.templates) < MaxTemplates
            /\ tm' = [templates |->
                          Append(tm.templates,
                                 [tm.currentTemplate EXCEPT !.id = ToString(t)]),
                      isEditing |-> FALSE, currentTemplate |-> emptyTemplate]
            /\ localStorage' =
                   saveTemplates(localStorage,
                                 Append(tm.templates,
                                        [tm.currentTemplate EXCEPT !.id = ToString(t)]))
            /\ form' = [form EXCEPT !.activeTemplate =
                           Some([tm.currentTemplate EXCEPT !.id = ToString(t)])]
            /\ now' = t
    /\ UNCHANGED <<activeTab, selectedReference, recorder, library, net, clips,
                   mic, storageEvents>>
    /\ Ran("TemplateManager_handleSave")

TemplateManager_handleDelete(id, confirmed) ==
    /\ Mounted
    /\ ~tm.isEditing
    /\ IF ~confirmed
       THEN UNCHANGED <<tm, localStorage, form>>
       ELSE /\ tm' = [tm EXCEPT !.templates = SelectSeq(@, LAMBDA x : x.id # id)]
            /\ localStorage' =
                   saveTemplates(localStorage,
                                 SelectSeq(tm.templates, LAMBDA x : x.id # id))
            /\ form' = [form EXCEPT !.activeTemplate =
                           IF IsSome(@) /\ Get(@).id = id THEN None ELSE @]
    /\ UNCHANGED <<activeTab, selectedReference, recorder, library, net, clips,
                   mic, now, storageEvents>>
    /\ Ran("TemplateManager_handleDelete")

\* onSelect: "Default AI" passes null, a template chip the template.
setActiveTemplate(template) ==
    /\ Mounted
    /\ ~tm.isEditing
    /\ form' = [form EXCEPT !.activeTemplate = template]
    /\ UNCHANGED <<activeTab, selectedReference, localStorage, tm, recorder,
                   library, net, clips, mic, now, storageEvents>>
    /\ Ran("setActiveTemplate")

SeqElems(xs) == {xs[i] : i \in DOMAIN xs}

\* --------------------------------------------------------- VoiceRecorder
\* Streams acquired whose tracks were not stopped.
OpenStreams ==
    mic.live["recording"] + mic.live["stopping"]
        + mic.orphan["recording"] + mic.orphan["stopping"]

Recordings ==
    mic.live["recording"] + mic.live["stopping"] + mic.live["reading"]
        + mic.live["extracting"] + mic.orphan["recording"] + mic.orphan["stopping"]
        + mic.orphan["reading"] + mic.orphan["extracting"]

\* The mic button, rendered while not recording, disabled while processing.
\* The handler suspends at getUserMedia.
startRecording ==
    /\ Mounted
    /\ ~recorder.isRecording
    /\ ~recorder.isProcessing
    /\ mic.pending < MaxMicPending
    /\ recorder' = [recorder EXCEPT !.error = NULL]
    /\ mic' = [mic EXCEPT !.pending = @ + 1]
    /\ UNCHANGED <<activeTab, selectedReference, localStorage, form, tm, library,
                   net, clips, now, storageEvents>>
    /\ Ran("startRecording")

\* startRecording after its await: the stream is there, a MediaRecorder on
\* it replaces mediaRecorderRef.current and is started.
startRecordingGranted ==
    /\ mic.pending > 0
    /\ Recordings < MaxStreams
    /\ mic' = [mic EXCEPT !.pending = @ - 1, !.live["recording"] = @ + 1]
    /\ recorder' = [recorder EXCEPT !.mediaRecorder = TRUE, !.isRecording = TRUE]
    /\ UNCHANGED <<activeTab, selectedReference, localStorage, form, tm, library,
                   net, clips, now, storageEvents>>
    /\ Ran("startRecordingGranted")

startRecordingDenied ==
    /\ mic.pending > 0
    /\ mic' = [mic EXCEPT !.pending = @ - 1]
    /\ recorder' = [recorder EXCEPT !.error = MicErrorMessage]
    /\ UNCHANGED <<activeTab, selectedReference, localStorage, form, tm, library,
                   net, clips, now, storageEvents>>
    /\ Ran("startRecordingDenied")

\* The grant reaches a startRecording whose recorder was unmounted: the
\* stream is acquired and recorded all the same.
orphanRecordingGranted ==
    /\ mic.orphanPending > 0
    /\ Recordings < MaxStreams
    /\ mic' = [mic EXCEPT !.orphanPending = @ - 1, !.orphan["recording"] = @ + 1]
    /\ UNCHANGED <<activeTab, selectedReference, localStorage, form, tm, recorder,
                   library, net, clips, now, storageEvents>>
    /\ Ran("orphanRecordingGranted")

orphanRecordingDenied ==
    /\ mic.orphanPending > 0
    /\ mic' = [mic EXCEPT !.orphanPending = @ - 1]
    /\ UNCHANGED <<activeTab, selectedReference, localStorage, form, tm, recorder,
                   library, net, clips, now, storageEvents>>
    /\ Ran("orphanRecordingDenied")

\* The stop button, rendered while recording. While isRecording holds,
\* mediaRecorderRef.current is the recorder of the latest grant, and it is
\* recording.
stopRecording ==
    /\ Mounted
    /\ recorder.isRecording
    /\ IF recorder.mediaRecorder
       THEN /\ mic' = [mic EXCEPT !.live["recording"] = @ - 1,
                                  !.live["stopping"] = @ + 1]
            /\ recorder' = [recorder EXCEPT !.isRecording = FALSE]
       ELSE UNCHANGED <<mic, recorder>>
    /\ UNCHANGED <<activeTab, selectedReference, localStorage, form, tm, library,
                   net, clips, now, storageEvents>>
    /\ Ran("stopRecording")

\* mediaRecorder.onstop: the blob goes to a FileReader, the stream's tracks
\* are stopped. owner is "live" or "orphan".
onstop(owner) ==
    /\ mic[owner]["stopping"] > 0
    /\ mic' = [mic EXCEPT ![owner]["stopping"] = @ - 1, ![owner]["reading"] = @ + 1]
    /\ UNCHANGED <<activeTab, selectedReference, localStorage, form, tm, recorder,
                   library, net, clips, now, storageEvents>>
    /\ Ran("onstop")

\* reader.onloadend: setIsProcessing(true), then handleAudioCaptured up to
\* its await (setErrorMessage(null); processAudioResearch is called).
onloadend(owner) ==
    /\ mic[owner]["reading"] > 0
    /\ mic' = [mic EXCEPT ![owner]["reading"] = @ - 1, ![owner]["extracting"] = @ + 1]
    /\ IF owner = "live"
       THEN /\ recorder' = [recorder EXCEPT !.isProcessing = TRUE]
            /\ form' = [form EXCEPT !.errorMessage = NULL]
       ELSE UNCHANGED <<recorder, form>>
    /\ UNCHANGED <<activeTab, selectedReference, localStorage, tm, library, net,
                   clips, now, storageEvents>>
    /\ Ran("onloadend")

sanitize_untrimmed(val) == SelectSeq(val, LAMBDA c : c \notin {"<", ">"})

\* val.trim().replace(/[<>]/g, '')
sanitize(val) == SelectSeq(trim(val), LAMBDA c : c \notin {"<", ">"})

\* result.field || '' for a field the parsed object may lack
orEmpty(m) == IF IsSome(m) THEN Get(m) ELSE <<>>

\* services/geminiService processAudioResearch, from the backend's answer
\* on. parseSafeJSON(response.text || '{}') runs inside the try whose catch
\* replaces every error; reading a field of a parsed null throws too.
processAudioResearch(resp) ==
    IF resp.kind = "reject" THEN Threw(ExtractionErrorMessage)
    ELSE IF resp.text.kind = "empty"
    THEN [ok |-> TRUE,
          value |-> [f \in TextFields |-> sanitize(<<>>)]]
    ELSE IF ~parseSafeJSON(resp.text).ok \/ ~IsSome(parseSafeJSON(resp.text).value)
    THEN Threw(ExtractionErrorMessage)
    ELSE [ok |-> TRUE,
          value |-> [f \in TextFields |->
                        sanitize(orEmpty(Get(parseSafeJSON(resp.text).value)[f]))]]

mergeExtracted_overwrite(prev, data) ==
    [prev EXCEPT !.ownerName = data.ownerName, !.businessName = data.businessName,
                 !.identifiedGap = data.identifiedGap, !.freeValue = data.freeValue]

\* setFormData(prev => ({...prev, field: data.field || prev.field, ...}))
mergeExtracted(prev, data) ==
    [prev EXCEPT !.ownerName = IF data.ownerName # <<>> THEN data.ownerName ELSE @,
                 !.businessName =
                     IF data.businessName # <<>> THEN data.businessName ELSE @,
                 !.identifiedGap =
                     IF data.identifiedGap # <<>> THEN data.identifiedGap ELSE @,
                 !.freeValue = IF data.freeValue # <<>> THEN data.freeValue ELSE @]

\* handleAudioCaptured after its await, then onloadend's finally. The
\* setState calls of an unmounted form and recorder do nothing.
handleAudioCapturedSettled(owner, resp) ==
    /\ mic[owner]["extracting"] > 0
    /\ mic' = [mic EXCEPT ![owner]["extracting"] = @ - 1]
    /\ IF owner = "live"
       THEN /\ recorder' = [recorder EXCEPT !.isProcessing = FALSE]
            /\ form' =
                 IF processAudioResearch(resp).ok
                 THEN [form EXCEPT !.formData =
                          mergeExtracted(@, processAudioResearch(resp).value)]
                 ELSE [form EXCEPT !.errorMessage = processAudioResearch(resp).message]
       ELSE UNCHANGED <<recorder, form>>
    /\ UNCHANGED <<activeTab, selectedReference, localStorage, tm, library, net,
                   clips, now, storageEvents>>
    /\ Returned(IF owner = "live" THEN "handleAudioCapturedSettled"
                ELSE "orphanAudioCapturedSettled",
                processAudioResearch(resp))

\* ----------------------------------------------------------- LibraryView
LibraryMounted == activeTab = "library"

loadScripts_never(lib, ls) == lib

\* loadScripts(): if (saved) setScripts(JSON.parse(saved))
loadScripts(lib, ls) ==
    IF IsSome(ls.voice_note_library)
    THEN [lib EXCEPT !.scripts = JSONparse(Get(ls.voice_note_library))]
    ELSE lib

withoutId_head(scripts, id) == Tail(scripts)

\* scripts.filter(s => s.id !== id)
withoutId(scripts, id) == SelectSeq(scripts, LAMBDA x : x.id # id)

\* The trash button of a card; confirmed is what confirm() returns.
LibraryView_handleDelete(id, confirmed) ==
    /\ LibraryMounted
    /\ \E i \in DOMAIN library.scripts : library.scripts[i].id = id
    /\ IF ~confirmed
       THEN UNCHANGED <<library, localStorage>>
       ELSE /\ library' = [library EXCEPT !.scripts = withoutId(@, id)]
            /\ localStorage' =
                 [localStorage EXCEPT !.voice_note_library =
                     Some(JSONstringify(withoutId(library.scripts, id)))]
    /\ UNCHANGED <<activeTab, selectedReference, form, tm, recorder, net, clips,
                   mic, now, storageEvents>>
    /\ Returned(IF confirmed THEN "LibraryView_handleDelete"
                ELSE "LibraryView_handleDeleteDeclined", id)

\* String.prototype.toLowerCase over the letters A..Z; every other character
\* the inputs hold is its own lower case.
UpperCase ==
    <<"A", "B", "C", "D", "E", "F", "G", "H", "I", "J", "K", "L", "M",
      "N", "O", "P", "Q", "R", "S", "T", "U", "V", "W", "X", "Y", "Z">>

LowerCase ==
    <<"a", "b", "c", "d", "e", "f", "g", "h", "i", "j", "k", "l", "m",
      "n", "o", "p", "q", "r", "s", "t", "u", "v", "w", "x", "y", "z">>

toLowerCase_asIs(s) == s

toLowerCase(s) ==
    [i \in DOMAIN s |->
        IF \E k \in DOMAIN UpperCase : UpperCase[k] = s[i]
        THEN LowerCase[CHOOSE k \in DOMAIN UpperCase : UpperCase[k] = s[i]]
        ELSE s[i]]

\* String.prototype.includes
includes(s, t) ==
    \E i \in 0..(Len(s) - Len(t)) : SubSeq(s, i + 1, i + Len(t)) = t

\* The cards rendered: scripts.filter(s => ...) over the three fields
filteredScripts(scripts, searchTerm) ==
    SelectSeq(scripts,
              LAMBDA x :
                  \/ includes(toLowerCase(x.ownerName), toLowerCase(searchTerm))
                  \/ includes(toLowerCase(x.businessName), toLowerCase(searchTerm))
                  \/ includes(toLowerCase(x.content), toLowerCase(searchTerm)))

\* The search box: onChange={(e) => setSearchTerm(e.target.value)}
setSearchTerm(value) ==
    /\ LibraryMounted
    /\ library' = [library EXCEPT !.searchTerm = value]
    /\ UNCHANGED <<activeTab, selectedReference, localStorage, form, tm, recorder,
                   net, clips, mic, now, storageEvents>>
    /\ Ran("setSearchTerm")

\* The play button of a card (disabled while a card is loading or playing;
\* the handler checks again).
handlePlayVoice(script) ==
    /\ LibraryMounted
    /\ script \in SeqElems(library.scripts)
    /\ IF library.loadingId # NULL \/ library.playingId # NULL
       THEN UNCHANGED <<library, net>>
       ELSE /\ library' = [library EXCEPT !.loadingId = script.id]
            /\ net' = [net EXCEPT !.libTts = Some(script.id)]
    /\ UNCHANGED <<activeTab, selectedReference, localStorage, form, tm, recorder,
                   clips, mic, now, storageEvents>>
    /\ Ran("handlePlayVoice")

\* handlePlayVoice after its await; every throw, the one of start() too, is
\* caught: both ids are reset and the alert is shown.
handlePlayVoiceSettled(outcome) ==
    /\ IsSome(net.libTts)
    /\ net' = [net EXCEPT !.libTts = None]
    /\ IF outcome = "audio"
       THEN /\ library' = [library EXCEPT !.audioContext = "open",
                                          !.loadingId = NULL,
                                          !.playingId = Get(net.libTts)]
            /\ clips' = [clips EXCEPT !.library = @ + 1]
       ELSE /\ library' = [library EXCEPT
                             !.audioContext =
                                 IF generateSpeechOk(outcome) THEN "open" ELSE @,
                             !.loadingId = NULL, !.playingId = NULL]
            /\ UNCHANGED clips
    /\ UNCHANGED <<activeTab, selectedReference, localStorage, form, tm, recorder,
                   mic, now, storageEvents>>
    /\ Returned("handlePlayVoiceSettled",
                IF outcome = "audio" THEN NULL ELSE PlaybackAlert)

\* source.onended of a library clip
libraryClipEnded ==
    /\ clips.library > 0
    /\ clips' = [clips EXCEPT !.library = @ - 1]
    /\ library' = [library EXCEPT !.playingId = NULL]
    /\ UNCHANGED <<activeTab, selectedReference, localStorage, form, tm, recorder,
                   net, mic, now, storageEvents>>
    /\ Ran("libraryClipEnded")

\* A speech call of an unmounted LibraryView settles: nothing closed its
\* context, the clip starts.
orphanPlayVoiceSettled(outcome) ==
    /\ net.orphanLibTts > 0
    /\ net' = [net EXCEPT !.orphanLibTts = @ - 1]
    /\ IF outcome = "audio"
       THEN /\ clips.orphans < MaxOrphans
            /\ clips' = [clips EXCEPT !.orphans = @ + 1]
       ELSE UNCHANGED clips
    /\ UNCHANGED <<activeTab, selectedReference, localStorage, form, tm, recorder,
                   library, mic, now, storageEvents>>
    /\ Ran("orphanPlayVoiceSettled")

\* ------------------------------------------------- a second browser tab
\* Another tab of the application on the same storage saves a script
\* (handleSaveToLibrary there); the browser queues a 'storage' event for
\* this tab.
otherTabSaveToLibrary(entry) ==
    /\ storageEvents < MaxStorageEvents
    /\ entry.createdAt >= now
    /\ Len(getJSON(localStorage, "voice_note_library", <<>>)) < MaxLibrary
    /\ localStorage' = prependToLibrary(localStorage, entry)
    /\ storageEvents' = storageEvents + 1
    /\ now' = entry.createdAt
    /\ UNCHANGED <<activeTab, selectedReference, form, tm, recorder, library, net,
                   clips, mic>>
    /\ Ran("otherTabSaveToLibrary")

\* Another tab, its LibraryView showing the present storage, deletes the
\* script of this id (handleDelete there, confirmed).
otherTabDelete(id) ==
    /\ storageEvents < MaxStorageEvents
    /\ \E i \in DOMAIN getJSON(localStorage, "voice_note_library", <<>>) :
           getJSON(localStorage, "voice_note_library", <<>>)[i].id = id
    /\ localStorage' =
           [localStorage EXCEPT !.voice_note_library =
               Some(JSONstringify(
                   withoutId(getJSON(localStorage, "voice_note_library", <<>>), id)))]
    /\ storageEvents' = storageEvents + 1
    /\ UNCHANGED <<activeTab, selectedReference, form, tm, recorder, library, net,
                   clips, mic, now>>
    /\ Ran("otherTabDelete")

\* Another tab, its TemplateManager mounted over the present storage, saves
\* a new template (handleSave there).
otherTabSaveTemplate(template) ==
    /\ storageEvents < MaxStorageEvents
    /\ template.id \in {ToString(t) : t \in now..MaxNow}
    /\ Len(getJSON(localStorage, "voice_note_templates", <<>>)) < MaxTemplates
    /\ localStorage' =
           saveTemplates(localStorage,
                         Append(getJSON(localStorage, "voice_note_templates", <<>>),
                                template))
    /\ storageEvents' = storageEvents + 1
    /\ now' = CHOOSE t \in now..MaxNow : ToString(t) = template.id
    /\ UNCHANGED <<activeTab, selectedReference, form, tm, recorder, library, net,
                   clips, mic>>
    /\ Ran("otherTabSaveTemplate")

\* The 'storage' event is dispatched: loadScripts is listening while the
\* LibraryView is mounted.
storageEvent ==
    /\ storageEvents > 0
    /\ storageEvents' = storageEvents - 1
    /\ library' = IF LibraryMounted THEN loadScripts(library, localStorage)
                  ELSE library
    /\ UNCHANGED <<activeTab, selectedReference, localStorage, form, tm, recorder,
                   net, clips, mic, now>>
    /\ Ran("storageEvent")

\* ---------------------------------------------------------------- inputs
\* What the user types: nothing, " a " (one character once trimmed), "ab",
\* " ab" (two once trimmed).
TypedTexts == {<<>>, <<" ", "a", " ">>, <<"a", "b">>, <<" ", "a", "b">>}

\* What the backend answers to a generate call.
scriptText == <<"[", "0", "]", " ", "h", "i">>

followUpText == <<"o", "k">>

GenerateResponses ==
    {[kind |-> "reject", text |-> emptyText],
     [kind |-> "text", text |-> emptyText],
     [kind |-> "text", text |-> garbageText],
     [kind |-> "text", text |-> jsonText(None)],
     [kind |-> "text", text |-> jsonText(Some([script |-> Some(scriptText),
                                               followUp |-> None]))],
     [kind |-> "text", text |-> jsonText(Some([script |-> Some(scriptText),
                                               followUp |-> Some(followUpText)]))]}

\* ------------------------------------------------- validation on submit
\* The four text inputs, the generate button and the backend's answers.
NextValidate ==
    \/ \E field \in TextFields, value \in TypedTexts : updateField(field, value)
    \/ handleGenerate
    \/ \E resp \in GenerateResponses : handleGenerateSettled(resp)

SpecValidate == Init /\ [][NextValidate]_vars

\* ------------------------------------------------- the generator workflow
\* Short inputs: one valid text per field, three backend answers to a
\* generation call, two to an extraction call (it rejects, or extracts an
\* owner name only), one template text.
validText == <<"a", "b">>

WorkflowEdits == {<<field, validText>> : field \in TextFields}

rejected == [kind |-> "reject", text |-> emptyText]

scriptAnswer ==
    [kind |-> "text",
     text |-> jsonText(Some([script |-> Some(scriptText),
                             followUp |-> Some(followUpText)]))]

WorkflowResponses ==
    {rejected, [kind |-> "text", text |-> emptyText],
     scriptAnswer}

extractedText == <<"c", "d">>

ExtractionResponses ==
    {rejected,
     [kind |-> "text",
      text |-> jsonText(Some([ownerName |-> Some(extractedText),
                              businessName |-> None,
                              identifiedGap |-> None,
                              freeValue |-> Some(<<>>)]))]}

templateName == <<"t">>

templateBody == <<"x">>

\* What an earlier visit left in the storage: it generated a script for a
\* filled form, saved it when the clock read 0, chose it as style reference
\* in the library and came back to the generator.
earlierFormData ==
    [formDataInit EXCEPT !.ownerName = validText, !.businessName = validText,
                         !.identifiedGap = validText, !.freeValue = validText]

earlierScript ==
    newEntryOf(earlierFormData, generateVoiceNote(scriptAnswer).value, 0)

earlierStorage ==
    persistSession(prependToLibrary(emptyStorage, earlierScript), "create",
                   Some(earlierScript))

InitReturning == InitOver(earlierStorage)

\* The generator tab of a returning visitor, every handler of it. Next to the
\* form and its submit, a run works with one panel: the template manager, the
\* recorder, the voice preview or the save button.
Panels == {"templates", "recorder", "preview", "save"}

Touched(panel) ==
    CASE panel = "templates" ->
             tm # MountTemplateManager(earlierStorage) \/ IsSome(form.activeTemplate)
      [] panel = "recorder" -> mic # MicInit \/ recorder # RecorderInit
      [] panel = "preview" ->
             net.tts \/ form.ttsLoading \/ form.isPlaying \/ form.audioContext # NULL
      [] panel = "save" ->
             localStorage.voice_note_library # earlierStorage.voice_note_library

Alone(panel) == \A other \in Panels \ {panel} : ~Touched(other)

NextWorkflow ==
    \/ \E edit \in WorkflowEdits : updateField(edit[1], edit[2])
    \/ handleGenerate
    \/ \E resp \in WorkflowResponses : handleGenerateSettled(resp)
    \/ onClearReference
    \/ Alone("preview") /\ handlePlayTTS
    \/ Alone("preview") /\ \E outcome \in SpeechOutcomes : handlePlayTTSSettled(outcome)
    \/ Alone("preview") /\ formClipEnded
    \/ Alone("save") /\ \E t \in 1..MaxNow : handleSaveToLibrary(t)
    \/ Alone("templates") /\ TemplateManager_createNew
    \/ Alone("templates") /\ TemplateManager_input(templateName, templateBody)
    \/ Alone("templates") /\ TemplateManager_cancel
    \/ Alone("templates") /\ \E template \in SeqElems(tm.templates) :
           TemplateManager_handleEdit(template)
    \/ Alone("templates") /\ \E t \in 1..MaxNow : TemplateManager_handleSave(t)
    \/ Alone("templates") /\ \E template \in SeqElems(tm.templates), confirmed \in BOOLEAN :
           TemplateManager_handleDelete(template.id, confirmed)
    \/ Alone("templates") /\ \E template \in SeqElems(tm.templates) :
           setActiveTemplate(Some(template))
    \/ Alone("templates") /\ setActiveTemplate(None)
    \/ Alone("recorder") /\ startRecording
    \/ Alone("recorder") /\ startRecordingGranted
    \/ Alone("recorder") /\ startRecordingDenied
    \/ Alone("recorder") /\ stopRecording
    \/ Alone("recorder") /\ onstop("live")
    \/ Alone("recorder") /\ onloadend("live")
    \/ Alone("recorder") /\ \E resp \in ExtractionResponses :
           handleAudioCapturedSettled("live", resp)

SpecWorkflow == InitReturning /\ [][NextWorkflow]_vars

\* ------------------------------------------------------------------- C1
\* A required field is too short when its trimmed value has fewer than two
\* characters.
TooShort(field) == Len(trim(form.formData[field])) < 2

FirstTooShort ==
    requiredFields[Min({i \in 1..Len(requiredFields) : TooShort(requiredFields[i])})]

\* The step is a submit (handleGenerate ran) made while not LOADING.
SubmitStep == lastOp' = "handleGenerate" /\ form.status # "LOADING"

SubmitBlocked ==
    /\ net' = net
    /\ form'.status = form.status
    /\ form'.result = form.result

\* C1 as stated: for each required field, a submit with that field too short
\* sends no request, leaves status and result unchanged, and sets the error
\* message that names that very field.
C1_EachShortFieldNamed ==
    [][\A field \in TextFields :
          (SubmitStep /\ TooShort(field)) =>
              (SubmitBlocked /\ form'.errorMessage = ValidationMessage(field))]_vars

\* C1 amended: a submit with any required field too short sends no request,
\* leaves status and result unchanged, and sets the error message naming the
\* first too-short field in the order ownerName, businessName,
\* identifiedGap, freeValue.
C1_ShortFieldBlocksSubmit ==
    [][\A field \in TextFields :
          (SubmitStep /\ TooShort(field)) =>
              (SubmitBlocked /\ form'.errorMessage = ValidationMessage(FirstTooShort))]_vars

\* A submit was rejected for freeValue alone (" a " or empty), after an
\* earlier generation had succeeded, and result and status are still there.
C1_Witness ==
    /\ lastOp = "handleGenerate"
    /\ form.errorMessage = ValidationMessage("freeValue")
    /\ form.formData.freeValue = <<" ", "a", " ">>
    /\ form.status = "SUCCESS"
    /\ IsSome(form.result)
    /\ ~IsSome(net.gen)

\* ------------------------------------------------------------------- C2
AllFieldsLongEnough == \A field \in TextFields : ~TooShort(field)

\* The step sends a generation request of the mounted form.
RequestSent == ~IsSome(net.gen) /\ IsSome(net'.gen)

\* The step is the mounted form's generation call settling.
CallSettled ==
    IsSome(net.gen) /\ ~IsSome(net'.gen) /\ lastOp' = "handleGenerateSettled"

CallSucceeded == Get(lastData').ok

\* C2: the generation status changes only from Idle, Error or Success to
\* Loading on a submit whose validation passes, from Loading to Success when
\* the generation call succeeds, and from Loading to Error when it fails; such
\* a submit and such a settling do change it that way; no field edit,
\* extraction, preview, save, template operation or clearing of the reference
\* changes it.
C2_StatusTransitions ==
    [][/\ form'.status # form.status =>
            \/ /\ form.status \in {"IDLE", "ERROR", "SUCCESS"}
               /\ form'.status = "LOADING"
               /\ lastOp' = "handleGenerate"
               /\ AllFieldsLongEnough
               /\ RequestSent
            \/ /\ form.status = "LOADING"
               /\ form'.status = "SUCCESS"
               /\ CallSettled /\ CallSucceeded
            \/ /\ form.status = "LOADING"
               /\ form'.status = "ERROR"
               /\ CallSettled /\ ~CallSucceeded
       /\ (lastOp' = "handleGenerate" /\ form.status # "LOADING" /\ AllFieldsLongEnough)
              => form'.status = "LOADING"
       /\ CallSettled =>
              form'.status = (IF CallSucceeded THEN "SUCCESS" ELSE "ERROR")]_vars

\* A failed call has just moved the status from Loading to Error, after the
\* reference was cleared and a template was saved and selected.
C2_Witness ==
    /\ lastOp = "handleGenerateSettled"
    /\ form.status = "ERROR"
    /\ ~IsSome(selectedReference)
    /\ IsSome(form.activeTemplate)
    /\ tm.templates # <<>>

\* ------------------------------------------------------------------- C3
\* Submits, field edits and tab switches, the generation calls settling in
\* between.
NextTabsGenerate ==
    \/ \E edit \in WorkflowEdits : updateField(edit[1], edit[2])
    \/ handleGenerate
    \/ \E resp \in WorkflowResponses : handleGenerateSettled(resp)
    \/ orphanGenerateSettled
    \/ \E tab \in {"create", "library"} : setActiveTab(tab)

SpecTabsGenerate == Init /\ [][NextTabsGenerate]_vars

\* Generation requests the application issued that have not settled: the
\* mounted form's, and those of forms unmounted since.
GenerationsInFlight == Bit(IsSome(net.gen)) + net.orphanGen

\* A submit while the status is Loading sends no request and changes no
\* state.
LoadingSubmitIsNoOp ==
    [][(lastOp' = "handleGenerate" /\ form.status = "LOADING") =>
           /\ form' = form
           /\ net' = net
           /\ UNCHANGED <<activeTab, selectedReference, localStorage, tm, recorder,
                          library, clips, mic>>]_vars

\* C3: under any sequence of submits, field edits and switches between the
\* generator and library tabs, at most one generation request issued by the
\* application is in flight.
C3_AtMostOneGenerationInFlight == GenerationsInFlight <= 1

\* The form was filled again after a tab round trip and submitted, while the
\* request of the form before is still in flight.
C3_Witness ==
    /\ lastOp = "handleGenerate"
    /\ form.status = "LOADING"
    /\ IsSome(net.gen)
    /\ net.orphanGen = 1

\* ------------------------------------------------------------------- C4
\* Every tone, a persona picked by hand, the text fields; the recorder is
\* started when it is at rest.
VoiceEdits ==
    {<<"tone", tone>> : tone \in Tones} \cup {<<"selectedVoice", "Zephyr">>}
        \cup WorkflowEdits

RecorderAtRest == mic.pending = 0 /\ mic.live = noRecordings

NextVoice ==
    \/ \E edit \in VoiceEdits : updateField(edit[1], edit[2])
    \/ handleGenerate
    \/ \E resp \in WorkflowResponses : handleGenerateSettled(resp)
    \/ Alone("preview") /\ handlePlayTTS
    \/ Alone("preview") /\ \E outcome \in SpeechOutcomes : handlePlayTTSSettled(outcome)
    \/ Alone("preview") /\ formClipEnded
    \/ Alone("save") /\ \E t \in 1..MaxNow : handleSaveToLibrary(t)
    \/ Alone("recorder") /\ RecorderAtRest /\ startRecording
    \/ Alone("recorder") /\ startRecordingGranted
    \/ Alone("recorder") /\ startRecordingDenied
    \/ Alone("recorder") /\ stopRecording
    \/ Alone("recorder") /\ onstop("live")
    \/ Alone("recorder") /\ onloadend("live")
    \/ Alone("recorder") /\ \E resp \in ExtractionResponses :
           handleAudioCapturedSettled("live", resp)

SpecVoice == InitReturning /\ [][NextVoice]_vars

\* The persona the claim gives each tone.
PersonaOfTone(tone) ==
    CASE tone = "Casual" -> "Puck"
      [] tone = "Professional" -> "Charon"
      [] tone = "Direct" -> "Fenrir"
      [] tone = "Warm" -> "Kore"

ToneEdited == lastOp' = "updateField" /\ lastData' = Some("tone")

PersonaEdited == lastOp' = "updateField" /\ lastData' = Some("selectedVoice")

\* C4: an edit of the tone sets the persona to the one mapped to the new tone;
\* the tone changes by such an edit only; and the persona changes only by an
\* edit of the tone or by the user picking a persona, so that a persona picked
\* by hand survives every other action until the tone is edited again.
C4_ToneSetsPersona ==
    [][/\ ToneEdited =>
              form'.formData.selectedVoice = PersonaOfTone(form'.formData.tone)
       /\ form'.formData.tone # form.formData.tone => ToneEdited
       /\ form'.formData.selectedVoice # form.formData.selectedVoice =>
              ToneEdited \/ PersonaEdited]_vars

\* A persona picked by hand, not the one of the tone, is still selected after
\* an extraction merged an owner name into the form.
C4_Witness ==
    /\ lastOp = "handleAudioCapturedSettled"
    /\ form.formData.ownerName = extractedText
    /\ form.formData.tone = "Warm"
    /\ form.formData.selectedVoice = "Zephyr"

\* ------------------------------------------------------------------ C10
\* What the backend answers to an extraction call: it rejects; its text is
\* empty, not JSON, or JSON null; or it is an object with fields present,
\* empty, missing, padded, or made of angle brackets only.
ExtractionAnswers ==
    ExtractionResponses
        \cup {[kind |-> "text", text |-> emptyText],
              [kind |-> "text", text |-> garbageText],
              [kind |-> "text", text |-> jsonText(None)],
              [kind |-> "text",
               text |-> jsonText(Some([ownerName |-> Some(<<"<", ">">>),
                                       businessName |-> Some(<<" ", "e", " ">>),
                                       identifiedGap |-> Some(extractedText),
                                       freeValue |-> None]))]}

ExtractEdits ==
    {<<"ownerName", validText>>, <<"businessName", validText>>, <<"tone", "Warm">>,
     <<"selectedVoice", "Zephyr">>}

\* Field edits and the recorder, recordings overlapping as the clicks and
\* the grants allow.
NextExtract ==
    \/ \E edit \in ExtractEdits : updateField(edit[1], edit[2])
    \/ startRecording
    \/ startRecordingGranted
    \/ startRecordingDenied
    \/ stopRecording
    \/ onstop("live")
    \/ onloadend("live")
    \/ \E resp \in ExtractionAnswers : handleAudioCapturedSettled("live", resp)

SpecExtract == Init /\ [][NextExtract]_vars

\* The step is an extraction of the mounted form completing with data.
ExtractionCompleted ==
    lastOp' = "handleAudioCapturedSettled" /\ Get(lastData').ok

Extracted(field) == Get(lastData').value[field]

\* C10: when an extraction completes, each of the four text fields is the
\* extracted value if that is non-empty and else the value it had before the
\* merge; platform, tone, goal and persona are unchanged.
C10_MergeKeepsNonEmpty ==
    [][ExtractionCompleted =>
           /\ \A field \in TextFields :
                  form'.formData[field] =
                      (IF Extracted(field) # <<>> THEN Extracted(field)
                       ELSE form.formData[field])
           /\ \A field \in {"platform", "tone", "goal", "selectedVoice"} :
                  form'.formData[field] = form.formData[field]]_vars

\* An extraction has completed with no owner name, a business name and a gap:
\* the typed owner name is kept, the typed business name replaced, and the
\* tone and the persona picked by hand are as before.
C10_Witness ==
    /\ lastOp = "handleAudioCapturedSettled"
    /\ Get(lastData).ok
    /\ Get(lastData).value.ownerName = <<>>
    /\ Get(lastData).value.businessName = <<"e">>
    /\ form.formData.ownerName = validText
    /\ form.formData.businessName = <<"e">>
    /\ form.formData.identifiedGap = extractedText
    /\ form.formData.freeValue = <<>>
    /\ form.formData.tone = "Warm"
    /\ form.formData.selectedVoice = "Zephyr"

\* ----------------------------------------------------- the script library
\* The script another tab saves when its clock reads t.
otherFormData ==
    [formDataInit EXCEPT !.ownerName = extractedText, !.businessName = extractedText,
                         !.identifiedGap = extractedText, !.freeValue = extractedText]

otherScript(t) == newEntryOf(otherFormData, generateVoiceNote(scriptAnswer).value, t)

\* Generating and saving on the generator tab, browsing, deleting and
\* choosing a reference on the library tab, reloads, and a second tab saving
\* into the same storage.
NextLibrary ==
    \/ \E edit \in WorkflowEdits : updateField(edit[1], edit[2])
    \/ handleGenerate
    \/ handleGenerateSettled(scriptAnswer)
    \/ orphanGenerateSettled
    \/ \E t \in 1..MaxNow : handleSaveToLibrary(t)
    \/ \E tab \in {"create", "library"} : setActiveTab(tab)
    \/ \E script \in SeqElems(library.scripts) : handleUseAsReference(script)
    \/ onClearReference
    \/ Reload
    \/ \E script \in SeqElems(library.scripts), confirmed \in BOOLEAN :
           LibraryView_handleDelete(script.id, confirmed)
    \/ \E t \in 1..MaxNow : otherTabSaveToLibrary(otherScript(t))
    \/ storageEvent

SpecLibrary == Init /\ [][NextLibrary]_vars

\* The script list the storage holds.
PersistedScripts ==
    IF IsSome(localStorage.voice_note_library)
    THEN JSONparse(Get(localStorage.voice_note_library)) ELSE <<>>

\* ------------------------------------------------------------------- C5
\* The step is the save button acting on a result that holds a script.
ScriptSaved == lastOp' = "handleSaveToLibrary" /\ HasScript(form.result)

\* C5: saving a generated script writes the previously persisted list with
\* one new entry at index 0: the list is one longer, every previous entry is
\* there unchanged, one place further, and the entry in front is the one of
\* the script saved.
C5_SavePrepends ==
    [][ScriptSaved =>
           /\ Len(PersistedScripts') = Len(PersistedScripts) + 1
           /\ \A i \in 1..Len(PersistedScripts) :
                  PersistedScripts'[i + 1] = PersistedScripts[i]
           /\ PersistedScripts'[1].content = Get(Get(form.result).script)
           /\ PersistedScripts'[1].ownerName = form.formData.ownerName
           /\ PersistedScripts'[1].createdAt = now']_vars

\* A script was saved in front of one that a second tab had saved before
\* and that this tab had not loaded.
C5_Witness ==
    /\ lastOp = "handleSaveToLibrary"
    /\ form.isSavedInLibrary
    /\ Len(PersistedScripts) = 2
    /\ PersistedScripts[1].ownerName = validText
    /\ PersistedScripts[2] = otherScript(1)
    /\ storageEvents = 1

\* ------------------------------------------------------------------- C6
ListWithout(list, id) == SelectSeq(list, LAMBDA entry : entry.id # id)

DeleteConfirmed == lastOp' = "LibraryView_handleDelete"

DeleteDeclined == lastOp' = "LibraryView_handleDeleteDeclined"

DeletedId == Get(lastData')

\* The view's list is the persisted one: no other tab has written the list
\* since the view loaded it.
ViewUpToDate == library.scripts = PersistedScripts

\* C6 as claimed: a confirmed delete of id X writes the previously persisted
\* list with the entry of id X removed, the others unchanged and in order; a
\* declined one changes neither the in-memory list nor the persisted one.
C6_DeleteOfPersisted ==
    [][/\ DeleteConfirmed =>
              PersistedScripts' = ListWithout(PersistedScripts, DeletedId)
       /\ DeleteDeclined =>
              /\ PersistedScripts' = PersistedScripts
              /\ library'.scripts = library.scripts]_vars

\* C6, amended: a confirmed delete of id X writes the view's in-memory list
\* with the entry of id X removed, which is the previously persisted list with
\* that entry removed whenever the view's list is the persisted one; a
\* declined one changes neither list.
C6_DeleteOfLoaded ==
    [][/\ DeleteConfirmed =>
              /\ PersistedScripts' = ListWithout(library.scripts, DeletedId)
              /\ library'.scripts = PersistedScripts'
              /\ ViewUpToDate =>
                     PersistedScripts' = ListWithout(PersistedScripts, DeletedId)
       /\ DeleteDeclined =>
              /\ PersistedScripts' = PersistedScripts
              /\ library'.scripts = library.scripts]_vars

\* Of two scripts the second was deleted: the first, of another id, is what
\* the storage and the view hold.
C6_Witness ==
    /\ lastOp = "LibraryView_handleDelete"
    /\ Len(PersistedScripts) = 1
    /\ PersistedScripts[1].id # Get(lastData)
    /\ PersistedScripts[1].id = "2"
    /\ library.scripts = PersistedScripts

\* ------------------------------------------------------------------- C7
\* C7: a page reload restores the active tab and the active style reference
\* to the values they had before it, whatever selections, clearings and tab
\* switches came before; and whenever no reference is active, none is stored.
C7_ReloadRestoresSession ==
    [][/\ lastOp' = "load" =>
              /\ activeTab' = activeTab
              /\ selectedReference' = selectedReference
       /\ ~IsSome(selectedReference') => ~IsSome(localStorage'.app_active_reference)
       /\ IsSome(selectedReference') =>
              localStorage'.app_active_reference =
                  Some(JSONstringify(Get(selectedReference')))
       /\ localStorage'.app_active_tab = Some(activeTab')]_vars

\* The page was reloaded on the library tab with a reference chosen: both are
\* back.
C7_Witness ==
    /\ lastOp = "load"
    /\ activeTab = "library"
    /\ IsSome(selectedReference)
    /\ Get(selectedReference).ownerName = validText
    /\ library.scripts # <<>>

\* ------------------------------------------------------------------- C8
\* A returning visitor generates a script and plays its preview, plays saved
\* scripts in the library, and switches tabs, the clips ending when they end.
NextAudio ==
    \/ \E edit \in WorkflowEdits : updateField(edit[1], edit[2])
    \/ handleGenerate
    \/ handleGenerateSettled(scriptAnswer)
    \/ orphanGenerateSettled
    \/ handlePlayTTS
    \/ \E outcome \in SpeechOutcomes : handlePlayTTSSettled(outcome)
    \/ formClipEnded
    \/ \E outcome \in SpeechOutcomes : orphanTTSSettled(outcome)
    \/ orphanTTSClosedSettled
    \/ orphanClipEnded
    \/ \E tab \in {"create", "library"} : setActiveTab(tab)
    \/ \E script \in SeqElems(library.scripts) : handlePlayVoice(script)
    \/ \E outcome \in SpeechOutcomes : handlePlayVoiceSettled(outcome)
    \/ libraryClipEnded
    \/ \E outcome \in SpeechOutcomes : orphanPlayVoiceSettled(outcome)

SpecAudio == InitReturning /\ [][NextAudio]_vars

\* Synthesized clips the audio output is rendering.
ClipsPlaying == clips.form + clips.library + clips.orphans

\* C8: at any time at most one synthesized clip is playing, the generator's
\* preview and the library's playback counted together, whatever the play
\* requests and tab switches.
C8_AtMostOneClip == ClipsPlaying <= 1

\* The library plays a clip while the clip it started before the tab round
\* trip is still playing.
C8_Witness ==
    /\ activeTab = "library"
    /\ library.playingId # NULL
    /\ clips.library = 1
    /\ clips.orphans = 1

\* ------------------------------------------------------------------- C9
\* Start and stop clicks, the microphone grants and refusals arriving when
\* they arrive, the recordings stopping, being read and extracted.
NextMicrophone ==
    \/ startRecording
    \/ startRecordingGranted
    \/ startRecordingDenied
    \/ stopRecording
    \/ onstop("live")
    \/ onloadend("live")
    \/ \E resp \in ExtractionResponses : handleAudioCapturedSettled("live", resp)

SpecMicrophone == Init /\ [][NextMicrophone]_vars

\* C9: at any time at most one microphone stream is open, for every
\* interleaving of start and stop clicks with the microphone grants.
C9_AtMostOneStream == OpenStreams <= 1

\* Two start clicks were granted one after the other: both streams are being
\* recorded, and the stop button reaches the second only.
C9_Witness ==
    /\ recorder.isRecording
    /\ mic.pending = 0
    /\ mic.live["recording"] = 2

\* ------------------------------------------------------------------ C11
\* A result that holds both required fields.
CompleteResult(result) ==
    /\ IsSome(result)
    /\ IsSome(Get(result).script)
    /\ IsSome(Get(result).followUp)

\* C11: when a generation call settles, either the response parsed into an
\* object holding script and followUp, which is the result with status
\* Success, or the status is Error, the error message is the generation error
\* and there is no result: a failed call, an empty response text and a
\* response missing a field all end in Error.
C11_IncompleteResponseIsError ==
    [][CallSettled =>
           IF CompleteResult(form'.result) THEN form'.status = "SUCCESS"
           ELSE /\ form'.status = "ERROR"
                /\ form'.errorMessage = GenerationErrorMessage
                /\ ~IsSome(form'.result)]_vars

\* A generation call has settled on an empty response text: the status is
\* Success and the result is the object without fields.
C11_Witness ==
    /\ lastOp = "handleGenerateSettled"
    /\ form.status = "SUCCESS"
    /\ form.result = Some(emptyObject)
    /\ form.errorMessage = NULL

\* ------------------------------------------------------------------ C12
\* The message parseSafeJSON throws with.
FormatErrorMessage == "The AI returned an invalid response format. Please try again."

\* The backend answered with a text that is not JSON.
Malformed(resp) == resp.kind = "text" /\ resp.text.kind = "garbage"

\* C12: when an extraction call settles on a response text that is not JSON,
\* the error handleAudioCaptured receives is the response-format error; when
\* the backend call itself failed, it is the generic extraction error.
C12_ExtractionErrorsDistinguished ==
    [][\A resp \in ExtractionAnswers :
           handleAudioCapturedSettled("live", resp) =>
               /\ Malformed(resp) => form'.errorMessage = FormatErrorMessage
               /\ resp.kind = "reject" =>
                      form'.errorMessage = ExtractionErrorMessage]_vars

\* An extraction has failed and the form shows the generic extraction error:
\* the only error an extraction ends with, a text that is not JSON included.
C12_Witness ==
    /\ lastOp = "handleAudioCapturedSettled"
    /\ lastData = Some(processAudioResearch([kind |-> "text", text |-> garbageText]))
    /\ form.errorMessage = ExtractionErrorMessage
    /\ ~recorder.isProcessing

\* ------------------------------------------------------------------ C13
\* Field edits, submits and the recorder on a first visit, the generation and
\* extraction calls settling when they settle.
NextRecordSubmit ==
    \/ \E edit \in WorkflowEdits : updateField(edit[1], edit[2])
    \/ handleGenerate
    \/ \E resp \in WorkflowResponses : handleGenerateSettled(resp)
    \/ startRecording
    \/ startRecordingGranted
    \/ startRecordingDenied
    \/ stopRecording
    \/ onstop("live")
    \/ onloadend("live")
    \/ \E resp \in ExtractionResponses : handleAudioCapturedSettled("live", resp)

SpecRecordSubmit == Init /\ [][NextRecordSubmit]_vars

\* Extraction requests the application issued that have not settled.
ExtractionsInFlight == mic.live["extracting"] + mic.orphan["extracting"]

\* C13: at any time, no generation request is in flight together with an
\* extraction request, and at most one extraction request is in flight,
\* whatever the interleaving of record, stop and submit.
C13_OneRequestInFlight ==
    /\ GenerationsInFlight = 0 \/ ExtractionsInFlight = 0
    /\ ExtractionsInFlight <= 1

\* A recording was stopped and its extraction sent while the generation
\* request of a submit is still in flight.
C13_Witness ==
    /\ form.status = "LOADING"
    /\ IsSome(net.gen)
    /\ recorder.isProcessing
    /\ mic.live["extracting"] = 1

\* ------------------------------------------------------ the script text
\* "[0-5s] Hey Mike, [5-10s] saw your site"
MikeScript ==
    <<"[", "0", "-", "5", "s", "]", " ", "H", "e", "y", " ", "M", "i", "k",
      "e", ",", " ", "[", "5", "-", "1", "0", "s", "]", " ", "s", "a", "w",
      " ", "y", "o", "u", "r", " ", "s", "i", "t", "e">>

\* n words of one letter, a marker with a blank inside in front
Words(n) == [i \in 1..(2 * n - 1) |-> IF i % 2 = 1 THEN "a" ELSE " "]

TimedWords(n) == <<"[", "0", " ", "5", "]", " ">> \o Words(n)

\* The scripts the backend answers with: the example, a marker alone, and
\* scripts of as many words as lie on and next to the limits of the three
\* lengths.
WordCounts == {56, 68, 69, 120, 129, 130, 160}

ScriptTexts ==
    {MikeScript, <<"[", "0", "]">>} \cup {TimedWords(n) : n \in WordCounts}

ScriptAnswers ==
    {[kind |-> "text",
      text |-> jsonText(Some([script |-> Some(s), followUp |-> Some(followUpText)]))] :
        s \in ScriptTexts}

\* A visitor fills the form, generates scripts and previews them.
NextScript ==
    \/ \E edit \in WorkflowEdits : updateField(edit[1], edit[2])
    \/ handleGenerate
    \/ \E resp \in ScriptAnswers : handleGenerateSettled(resp)
    \/ handlePlayTTS
    \/ \E outcome \in SpeechOutcomes : handlePlayTTSSettled(outcome)
    \/ formClipEnded

SpecScript == Init /\ [][NextScript]_vars

\* ------------------------------------------------------------------ C14
\* "Hey Mike, saw your site"
MikeStripped ==
    <<"H", "e", "y", " ", "M", "i", "k", "e", ",", " ", "s", "a", "w", " ",
      "y", "o", "u", "r", " ", "s", "i", "t", "e">>

\* The step sends the speech request of a preview.
SpeechRequestSent == ~net.tts /\ net'.tts

ResultIs(script) == IsSome(form.result) /\ Get(form.result).script = Some(script)

\* C14: the speech request for the script "[0-5s] Hey Mike, [5-10s] saw your
\* site" is asked to voice exactly "Hey Mike, saw your site", and the duration
\* shown for that script is the one of the five words of that text.
C14_MarkersStripped ==
    [][/\ (SpeechRequestSent /\ ResultIs(MikeScript)) =>
              net'.ttsText = Some(MikeStripped)
       /\ ResultIs(MikeScript) =>
              estimatedDuration(form.result) = round(5 * 60, 140)]_vars

\* The preview of the example script was requested: the request is in flight.
C14_Witness ==
    /\ ResultIs(MikeScript)
    /\ net.tts
    /\ IsSome(net.ttsText)
    /\ form.ttsLoading

\* ------------------------------------------------------------------ C15
\* The words of a text: the places where a word starts.
WordStarts(text) ==
    Cardinality({i \in 1..Len(text) :
                    text[i] \notin Whitespace /\ (i = 1 \/ text[i - 1] \in Whitespace)})

\* d is the integer nearest to num / den.
IsNearest(d, num, den) ==
    /\ 2 * (d * den - num) <= den
    /\ 2 * (num - d * den) <= den

DurationShown == estimatedDuration(form.result)

\* C15: for a result with a script of w words once its markers are stripped,
\* the estimated duration is w * 60 / 140 rounded to the nearest second; it is
\* labelled too short exactly when below 30, acceptable exactly when from 30 to
\* 55, too long exactly when above 55; 56 words give 24 (too short), 120 words
\* 51 (acceptable), 160 words 69 (too long).
C15_DurationBuckets ==
    HasScript(form.result) =>
        LET words == WordStarts(stripMarkers(Get(Get(form.result).script)))
        IN  /\ IsNearest(DurationShown, words * 60, 140)
            /\ durationStatus(DurationShown) = "Too Short" <=> DurationShown < 30
            /\ durationStatus(DurationShown) = "Perfect Length" <=>
                   (30 <= DurationShown /\ DurationShown <= 55)
            /\ durationStatus(DurationShown) = "A Bit Long" <=> DurationShown > 55
            /\ words = 56 =>
                   DurationShown = 24 /\ durationStatus(DurationShown) = "Too Short"
            /\ words = 120 =>
                   DurationShown = 51 /\ durationStatus(DurationShown) = "Perfect Length"
            /\ words = 160 =>
                   DurationShown = 69 /\ durationStatus(DurationShown) = "A Bit Long"

\* A generation has answered with a script of 129 words behind a marker: 55
\* seconds, the last acceptable length.
C15_Witness ==
    /\ form.status = "SUCCESS"
    /\ ResultIs(TimedWords(129))
    /\ DurationShown = 55
    /\ durationStatus(DurationShown) = "Perfect Length"

\* ------------------------------------------------------------------ C16
\* PCM payloads: up to MaxSamples samples out of 16384 (00 40), -16384
\* (00 C0) and -64 (C0 FF), low byte first, and the same with one byte more;
\* one or two channels.
PcmSamples == {<<0, 64>>, <<0, 192>>, <<192, 255>>}

BytesOf(samples) ==
    [i \in 1..(2 * Len(samples)) |-> samples[(i + 1) \div 2][2 - (i % 2)]]

PcmPayloads ==
    UNION {{BytesOf(samples), Append(BytesOf(samples), 0)} :
              samples \in UNION {[1..n -> PcmSamples] : n \in 0..MaxSamples}}

NextDecode ==
    \E data \in PcmPayloads, numChannels \in 1..2 :
        callDecodeAudioData(data, numChannels)

SpecDecode == Init /\ [][NextDecode]_vars

Decoded == lastOp = "decodeAudioData" /\ Get(lastData).decoded.ok

\* The fraction f is the integer x divided by 32768.
IsSampleOver32768(f, x) == f.num * 32768 = x * f.den

\* C16: a decode of n samples with c channels gives c channel arrays of
\* n / c frames in which sample i of channel k is input sample i * c + k
\* divided by 32768 (i and k counted from 0); the samples 16384, -16384 with
\* one channel give 0.5, -0.5.
C16_DecodeDeinterleaves ==
    Decoded =>
        LET c == Get(lastData).numChannels
            samples == Int16Array(Get(lastData).data)
            channels == Get(lastData).decoded.value
        IN  /\ Len(channels) = c
            /\ \A k \in 0..(c - 1) :
                   /\ Len(channels[k + 1]) = Len(samples) \div c
                   /\ \A i \in 0..((Len(samples) \div c) - 1) :
                          IsSampleOver32768(channels[k + 1][i + 1],
                                            samples[i * c + k + 1])
            /\ (Get(lastData).data = <<0, 64, 0, 192>> /\ c = 1) =>
                   /\ samples = <<16384, -16384>>
                   /\ Len(channels[1]) = 2
                   /\ 2 * channels[1][1].num = channels[1][1].den
                   /\ 2 * channels[1][2].num = -channels[1][2].den

\* Four samples were decoded as two channels of two frames: the first channel
\* holds the first and third sample, the second the second and fourth.
C16_Witness ==
    /\ Decoded
    /\ Get(lastData).numChannels = 2
    /\ Get(lastData).data = <<0, 64, 0, 192, 192, 255, 0, 64>>
    /\ Get(lastData).decoded.value =
           <<<<Float32(16384), Float32(-64)>>, <<Float32(-16384), Float32(16384)>>>>

\* ------------------------------------------------------------------ C17
\* What the extraction backend returns as owner name: every string of up to
\* MaxRawLen characters out of blank, "<", ">" and a letter; the other fields
\* are missing.
RawChars == {" ", "<", ">", "a"}

RawStrings == UNION {[1..n -> RawChars] : n \in 0..MaxRawLen}

SanitizeAnswers ==
    {[kind |-> "text",
      text |-> jsonText(Some([ownerName |-> Some(raw),
                              businessName |-> None,
                              identifiedGap |-> None,
                              freeValue |-> None]))] : raw \in RawStrings}

\* A business name typed by hand and the recorder, one recording at a time,
\* the extraction answering with any of these.
NextSanitize ==
    \/ updateField("businessName", validText)
    \/ RecorderAtRest /\ startRecording
    \/ startRecordingGranted
    \/ startRecordingDenied
    \/ stopRecording
    \/ onstop("live")
    \/ onloadend("live")
    \/ \E resp \in SanitizeAnswers : handleAudioCapturedSettled("live", resp)

SpecSanitize == Init /\ [][NextSanitize]_vars

NoAngleBracket(s) == \A i \in 1..Len(s) : s[i] \notin {"<", ">"}

NoEdgeWhitespace(s) ==
    s = <<>> \/ (s[1] \notin Whitespace /\ s[Len(s)] \notin Whitespace)

\* An extraction of the mounted form has returned its four strings.
ExtractionReturned ==
    lastOp = "handleAudioCapturedSettled" /\ Get(lastData).ok

\* C17 as claimed: every string an extraction returns holds no "<" and no ">"
\* and neither starts nor ends with whitespace.
C17_SanitizedIsTrimmed ==
    ExtractionReturned =>
        \A field \in TextFields :
            /\ NoAngleBracket(Get(lastData).value[field])
            /\ NoEdgeWhitespace(Get(lastData).value[field])

\* The raw string without the whitespace at its ends.
Trimmed(raw) ==
    IF \A i \in 1..Len(raw) : raw[i] \in Whitespace THEN <<>>
    ELSE SubSeq(raw,
                CHOOSE i \in 1..Len(raw) :
                    raw[i] \notin Whitespace /\ \A j \in 1..(i - 1) : raw[j] \in Whitespace,
                CHOOSE i \in 1..Len(raw) :
                    raw[i] \notin Whitespace /\ \A j \in (i + 1)..Len(raw) : raw[j] \in Whitespace)

\* C17, amended: the owner name an extraction returns for the raw string of
\* the response holds no "<" and no ">"; it is the raw string trimmed and then
\* rid of its angle brackets; and it neither starts nor ends with whitespace
\* when the trimmed raw string neither starts nor ends with an angle bracket.
C17_SanitizedHasNoAngleBracket ==
    [][\A resp \in SanitizeAnswers :
           (lastOp' = "handleAudioCapturedSettled"
                /\ lastData' = Some(processAudioResearch(resp))) =>
               LET raw == Get(Get(resp.text.value).ownerName)
                   out == Get(lastData').value.ownerName
               IN  /\ Get(lastData').ok
                   /\ NoAngleBracket(out)
                   /\ out = SelectSeq(Trimmed(raw), LAMBDA c : c \notin {"<", ">"})
                   /\ (Trimmed(raw) # <<>> /\ Trimmed(raw)[1] \notin {"<", ">"}
                           /\ Trimmed(raw)[Len(Trimmed(raw))] \notin {"<", ">"})
                          => NoEdgeWhitespace(out)
                   /\ \A field \in TextFields \ {"ownerName"} :
                          Get(lastData').value[field] = <<>>]_vars

\* An extraction has returned, and merged into the form, an owner name that
\* starts with a blank: what is left of a raw string such as "< a".
C17_Witness ==
    /\ ExtractionReturned
    /\ Get(lastData).value.ownerName = <<" ", "a">>
    /\ form.formData.ownerName = <<" ", "a">>

\* ------------------------------------------------------------------ C18
\* A returning visitor previews a generated script and plays saved ones,
\* switching tabs; a speech call may fail, answer with audio that cannot be
\* decoded, or with audio whose clip cannot be started.
NextPlayback ==
    \/ \E edit \in WorkflowEdits : updateField(edit[1], edit[2])
    \/ handleGenerate
    \/ handleGenerateSettled(scriptAnswer)
    \/ orphanGenerateSettled
    \/ handlePlayTTS
    \/ \E outcome \in PlaybackOutcomes : handlePlayTTSSettled(outcome)
    \/ formClipEnded
    \/ \E outcome \in PlaybackOutcomes : orphanTTSSettled(outcome)
    \/ orphanTTSClosedSettled
    \/ orphanClipEnded
    \/ \E tab \in {"create", "library"} : setActiveTab(tab)
    \/ \E script \in SeqElems(library.scripts) : handlePlayVoice(script)
    \/ \E outcome \in PlaybackOutcomes : handlePlayVoiceSettled(outcome)
    \/ libraryClipEnded
    \/ \E outcome \in PlaybackOutcomes : orphanPlayVoiceSettled(outcome)

SpecPlayback == InitReturning /\ [][NextPlayback]_vars

PlaybackFailures == PlaybackOutcomes \ {"audio"}

\* In the library every failure, the one of start() too, leaves loadingId and
\* playingId null and shows the alert.
LibraryFailureClearsIndicators ==
    [][\A outcome \in PlaybackFailures :
           handlePlayVoiceSettled(outcome) =>
               /\ library'.loadingId = NULL
               /\ library'.playingId = NULL
               /\ lastData' = Some(PlaybackAlert)]_vars

\* In the generator a failed speech call and undecodable audio leave
\* ttsLoading and isPlaying false and an error message set.
SpeechFailureClearsIndicators ==
    [][\A outcome \in PlaybackFailures \ {"unstartable"} :
           handlePlayTTSSettled(outcome) =>
               /\ ~form'.ttsLoading
               /\ ~form'.isPlaying
               /\ form'.errorMessage # NULL]_vars

\* C18: when the speech call of a playback request fails, or its audio
\* cannot be decoded, or its clip cannot be started, then after the handler
\* the generator has ttsLoading and isPlaying both false and an error message
\* set, and the library has loadingId and playingId both null and has shown
\* its alert.
C18_FailureClearsIndicators ==
    [][\A outcome \in PlaybackFailures :
           /\ handlePlayTTSSettled(outcome) =>
                  /\ ~form'.ttsLoading
                  /\ ~form'.isPlaying
                  /\ form'.errorMessage # NULL
           /\ handlePlayVoiceSettled(outcome) =>
                  /\ library'.loadingId = NULL
                  /\ library'.playingId = NULL
                  /\ lastData' = Some(PlaybackAlert)]_vars

\* The clip of a preview could not be started: the error is shown and the
\* loading indicator cleared, and the generator still says it is playing,
\* with no clip that could end.
C18_Witness ==
    /\ form.errorMessage = StartErrorMessage
    /\ ~form.ttsLoading
    /\ form.isPlaying
    /\ clips.form = 0

\* ------------------------------------------------------------------ C19
\* The generator tab of a returning visitor: edits, submits, previews and
\* recordings, one recording at a time, the preview and the recorder not in
\* use together. Every backend call answers, every microphone request is
\* answered, every browser callback fires and every clip that plays ends.
NextInteractive ==
    \/ \E edit \in WorkflowEdits : updateField(edit[1], edit[2])
    \/ handleGenerate
    \/ \E resp \in WorkflowResponses : handleGenerateSettled(resp)
    \/ Alone("preview") /\ handlePlayTTS
    \/ Alone("preview") /\ \E outcome \in PlaybackOutcomes : handlePlayTTSSettled(outcome)
    \/ Alone("preview") /\ formClipEnded
    \/ Alone("recorder") /\ RecorderAtRest /\ startRecording
    \/ Alone("recorder") /\ startRecordingGranted
    \/ Alone("recorder") /\ startRecordingDenied
    \/ Alone("recorder") /\ stopRecording
    \/ Alone("recorder") /\ onstop("live")
    \/ Alone("recorder") /\ onloadend("live")
    \/ Alone("recorder") /\ \E resp \in ExtractionResponses :
           handleAudioCapturedSettled("live", resp)

Completions ==
    /\ WF_vars(\E resp \in WorkflowResponses : handleGenerateSettled(resp))
    /\ WF_vars(\E outcome \in PlaybackOutcomes : handlePlayTTSSettled(outcome))
    /\ WF_vars(formClipEnded)
    /\ WF_vars(startRecordingGranted \/ startRecordingDenied)
    /\ WF_vars(onstop("live"))
    /\ WF_vars(onloadend("live"))
    /\ WF_vars(\E resp \in ExtractionResponses : handleAudioCapturedSettled("live", resp))

SpecInteractive == InitReturning /\ [][NextInteractive]_vars /\ Completions

\* The generate button is disabled while Loading, the preview button while
\* loading or playing, the record button while processing.
GenerateDisabled == form.status = "LOADING"

PreviewDisabled == form.ttsLoading \/ form.isPlaying

RecordDisabled == recorder.isProcessing

\* Whatever is pending completes and its indicator clears, a clip that could
\* not be started set aside: there isPlaying has nothing to wait for.
ClearedWhenSomethingCompletes ==
    /\ GenerateDisabled ~> ~GenerateDisabled
    /\ form.ttsLoading ~> ~form.ttsLoading
    /\ (form.isPlaying /\ clips.form > 0) ~> ~form.isPlaying
    /\ RecordDisabled ~> ~RecordDisabled

\* C19: with every pending call and clip completing, in success or in
\* failure, a generate, preview or record button that is disabled is
\* eventually enabled again: the Loading status, the preview's loading and
\* playing indicators and the processing indicator are each eventually
\* cleared.
C19_EventuallyInteractive ==
    /\ GenerateDisabled ~> ~GenerateDisabled
    /\ PreviewDisabled ~> ~PreviewDisabled
    /\ RecordDisabled ~> ~RecordDisabled

\* After a clip that could not be started nothing is pending and the preview
\* button is disabled.
C19_Witness ==
    /\ PreviewDisabled
    /\ form.isPlaying
    /\ clips.form = 0
    /\ ~net.tts
    /\ ~form.ttsLoading
    /\ form.status = "SUCCESS"

\* ------------------------------------------------------------------ C20
\* A returning visitor, whose storage holds a saved script chosen as style
\* reference, generates and saves scripts, chooses references in the library,
\* clears them, switches tabs and reloads.
NextReference ==
    \/ \E edit \in WorkflowEdits : updateField(edit[1], edit[2])
    \/ handleGenerate
    \/ handleGenerateSettled(scriptAnswer)
    \/ orphanGenerateSettled
    \/ \E t \in 1..MaxNow : handleSaveToLibrary(t)
    \/ \E tab \in {"create", "library"} : setActiveTab(tab)
    \/ \E script \in SeqElems(library.scripts) : handleUseAsReference(script)
    \/ onClearReference
    \/ Reload

SpecReference == InitReturning /\ [][NextReference]_vars

\* The style reference the generation request in flight was sent with.
ReferencePassed(n) == Get(n.gen).reference

\* C20: "use as style" on a saved script makes that script the active
\* reference and the generator the active tab; the active reference changes
\* by that and by clearing it only; a generation request is sent with the
\* reference active at that moment: the chosen script while one is active,
\* none once it is cleared.
C20_ReferencePassedToGeneration ==
    [][/\ \A script \in SeqElems(library.scripts) :
              handleUseAsReference(script) =>
                  selectedReference' = Some(script) /\ activeTab' = "create"
       /\ selectedReference' # selectedReference =>
              \/ /\ activeTab = "library"
                 /\ activeTab' = "create"
                 /\ IsSome(selectedReference')
                 /\ Get(selectedReference') \in SeqElems(library.scripts)
              \/ /\ activeTab = "create"
                 /\ activeTab' = "create"
                 /\ ~IsSome(selectedReference')
       /\ RequestSent =>
              /\ ReferencePassed(net') = selectedReference
              /\ selectedReference' = selectedReference
              /\ IsSome(selectedReference) =>
                     ReferencePassed(net') = Some(Get(selectedReference))
              /\ ~IsSome(selectedReference) => ReferencePassed(net') = None]_vars

\* A generation request is in flight with the script saved in this visit as
\* its style reference, chosen in the library in place of the earlier one.
C20_Witness ==
    /\ lastOp = "handleGenerate"
    /\ IsSome(net.gen)
    /\ IsSome(selectedReference)
    /\ ReferencePassed(net) = selectedReference
    /\ Get(selectedReference) # earlierScript
    /\ Get(selectedReference).content = scriptText

\* ------------------------------------------------------------------ C21
\* A visitor whose storage holds two scripts, for "Al" of "bo" and for "la"
\* of "BO", both with the script text "[0] hi", comes back on the library
\* tab, types into the search box, deletes cards and switches tabs.
searchFormData(owner, business) ==
    [formDataInit EXCEPT !.ownerName = owner, !.businessName = business,
                         !.identifiedGap = validText, !.freeValue = validText]

searchScript(owner, business, t) ==
    newEntryOf(searchFormData(owner, business),
               generateVoiceNote(scriptAnswer).value, t)

searchStorage ==
    persistSession(
        prependToLibrary(
            prependToLibrary(emptyStorage,
                             searchScript(<<"A", "l">>, <<"b", "o">>, 0)),
            searchScript(<<"l", "a">>, <<"B", "O">>, 1)),
        "library", None)

InitSearch == InitOver(searchStorage)

SearchChars == {"a", "A", "l", "o", "h"}

SearchTerms ==
    {<<>>} \cup {<<c>> : c \in SearchChars}
        \cup {<<c, d>> : c \in SearchChars, d \in SearchChars}

NextSearch ==
    \/ \E value \in SearchTerms : setSearchTerm(value)
    \/ \E script \in SeqElems(library.scripts), confirmed \in BOOLEAN :
           LibraryView_handleDelete(script.id, confirmed)
    \/ \E tab \in {"create", "library"} : setActiveTab(tab)

SpecSearch == InitSearch /\ [][NextSearch]_vars

\* Two characters are the same letter in either case.
SameLetter(a, b) ==
    a = b \/ \E k \in DOMAIN UpperCase : {a, b} = {UpperCase[k], LowerCase[k]}

\* t occurs in s as a substring, letter case ignored.
ContainsIgnoringCase(s, t) ==
    \E i \in 0..(Len(s) - Len(t)) : \A j \in 1..Len(t) : SameLetter(s[i + j], t[j])

MatchesSearch(x, t) ==
    \/ ContainsIgnoringCase(x.ownerName, t)
    \/ ContainsIgnoringCase(x.businessName, t)
    \/ ContainsIgnoringCase(x.content, t)

\* The list the mounted library displays.
Displayed == filteredScripts(library.scripts, library.searchTerm)

\* C21: the displayed list is exactly the loaded scripts whose owner name,
\* business name or content contains the search term ignoring letter case,
\* in stored order; with an empty term it is every script; typing into the
\* search box changes neither the loaded nor the persisted script list.
C21_SearchFilters ==
    /\ [](LibraryMounted =>
            /\ Displayed = SelectSeq(library.scripts,
                                     LAMBDA x : MatchesSearch(x, library.searchTerm))
            /\ library.searchTerm = <<>> => Displayed = library.scripts)
    /\ [][lastOp' = "setSearchTerm" =>
            /\ library'.scripts = library.scripts
            /\ localStorage' = localStorage]_vars

\* "al" is typed with both scripts loaded: the card of "Al" is displayed,
\* the card of "la" is not.
C21_Witness ==
    /\ LibraryMounted
    /\ lastOp = "setSearchTerm"
    /\ library.searchTerm = <<"a", "l">>
    /\ Len(library.scripts) = 2
    /\ Len(Displayed) = 1
    /\ Displayed[1].ownerName = <<"A", "l">>

\* ------------------------------------------------------------------ C22
\* Two tabs on one storage: this tab of a returning visitor works with its
\* template manager and its library, the other tab saves scripts and
\* templates.
otherTemplate(t) == [id |-> ToString(t), name |-> <<"o">>, content |-> templateBody]

NextTwoTabs ==
    \/ TemplateManager_createNew
    \/ TemplateManager_input(templateName, templateBody)
    \/ \E t \in 1..MaxNow : TemplateManager_handleSave(t)
    \/ \E template \in SeqElems(tm.templates), confirmed \in BOOLEAN :
           TemplateManager_handleDelete(template.id, confirmed)
    \/ \E tab \in {"create", "library"} : setActiveTab(tab)
    \/ \E script \in SeqElems(library.scripts), confirmed \in BOOLEAN :
           LibraryView_handleDelete(script.id, confirmed)
    \/ \E t \in 1..MaxNow : otherTabSaveToLibrary(otherScript(t))
    \/ \E t \in 1..MaxNow : otherTabSaveTemplate(otherTemplate(t))
    \/ storageEvent

SpecTwoTabs == InitReturning /\ [][NextTwoTabs]_vars

\* The template list the storage holds.
PersistedTemplates == getJSON(localStorage, "voice_note_templates", <<>>)

IdsOf(list) == {list[i].id : i \in DOMAIN list}

\* C22: an entry leaves a persisted list only when this tab rewrites the
\* whole list from its in-memory copy; it is then either the entry the user
\* deleted, or an entry the copy never held (one the other tab wrote after
\* the copy was loaded), which is lost although nobody deleted it.
C22_LastWriterWins ==
    [][/\ \A id \in IdsOf(PersistedScripts) \ IdsOf(PersistedScripts') :
              /\ lastOp' = "LibraryView_handleDelete"
              /\ PersistedScripts' = withoutId(library.scripts, Get(lastData'))
              /\ id = Get(lastData') \/ id \notin IdsOf(library.scripts)
       /\ \A id \in IdsOf(PersistedTemplates) \ IdsOf(PersistedTemplates') :
              /\ tm'.templates # tm.templates
              /\ PersistedTemplates' = tm'.templates
              /\ id \in IdsOf(tm.templates) =>
                     tm'.templates = SelectSeq(tm.templates, LAMBDA x : x.id # id)]_vars

\* The other tab saved a script; before its notification is delivered, the
\* user deletes the earlier script (id "0") in this tab's library, whose
\* copy holds that script only: the persisted list is empty, the other
\* tab's script is gone. No template was ever written.
C22_Witness ==
    /\ lastOp = "LibraryView_handleDelete"
    /\ Get(lastData) = "0"
    /\ storageEvents = 1
    /\ ~IsSome(localStorage.voice_note_templates)
    /\ PersistedScripts = <<>>

\* ------------------------------------------------------------------ C23
\* The script list and everything that writes or loads it: this tab saves
\* on the generator tab and deletes in the library, the other tab saves and
\* deletes, notifications are delivered, the page is reloaded.
NextMirror ==
    \/ \E edit \in WorkflowEdits : updateField(edit[1], edit[2])
    \/ handleGenerate
    \/ handleGenerateSettled(scriptAnswer)
    \/ orphanGenerateSettled
    \/ \E t \in 1..MaxNow : handleSaveToLibrary(t)
    \/ \E tab \in {"create", "library"} : setActiveTab(tab)
    \/ \E script \in SeqElems(library.scripts), confirmed \in BOOLEAN :
           LibraryView_handleDelete(script.id, confirmed)
    \/ \E t \in 1..MaxNow : otherTabSaveToLibrary(otherScript(t))
    \/ \E script \in SeqElems(PersistedScripts) : otherTabDelete(script.id)
    \/ storageEvent
    \/ Reload

SpecMirror == InitReturning /\ [][NextMirror]_vars

\* C23: while the library view is mounted and no storage notification is
\* waiting to be delivered, the list it holds is the persisted list.
C23_ViewMirrorsStorage ==
    (LibraryMounted /\ storageEvents = 0) => library.scripts = PersistedScripts

\* The view holds the script the other tab saved, and it alone, after the
\* user deleted the earlier script in this view; nothing is pending.
C23_Witness ==
    /\ LibraryMounted
    /\ storageEvents = 0
    /\ lastOp = "LibraryView_handleDelete"
    /\ Get(lastData) = "0"
    /\ library.scripts = <<otherScript(1)>>
    /\ PersistedScripts = <<otherScript(1)>>

\* ------------------------------------------------------------------ C24
\* One direction holds: a result is present only with status SUCCESS.
ResultOnlyWithSuccess == IsSome(form.result) => form.status = "SUCCESS"

\* C24: in every state of the generator form, a result is present exactly
\* when the generation status is SUCCESS.
C24_ResultIffSuccess == IsSome(form.result) <=> form.status = "SUCCESS"

\* The backend answered the JSON text null: the call succeeded with no
\* result.
C24_Witness ==
    /\ lastOp = "handleGenerateSettled"
    /\ Get(lastData).ok
    /\ form.status = "SUCCESS"
    /\ ~IsSome(form.result)

\* ------------------------------------------------------------------ C25
\* The template manager with an editor that can type two template bodies,
\* the form's four fields and the generation call.
editedBody == <<"y">>

NextTemplates ==
    \/ \E edit \in WorkflowEdits : updateField(edit[1], edit[2])
    \/ handleGenerate
    \/ handleGenerateSettled(scriptAnswer)
    \/ TemplateManager_createNew
    \/ \E content \in {templateBody, editedBody} :
           TemplateManager_input(templateName, content)
    \/ TemplateManager_cancel
    \/ \E template \in SeqElems(tm.templates) : TemplateManager_handleEdit(template)
    \/ \E t \in 1..MaxNow : TemplateManager_handleSave(t)
    \/ \E template \in SeqElems(tm.templates), confirmed \in BOOLEAN :
           TemplateManager_handleDelete(template.id, confirmed)
    \/ \E template \in SeqElems(tm.templates) : setActiveTemplate(Some(template))
    \/ setActiveTemplate(None)

SpecTemplates == Init /\ [][NextTemplates]_vars

\* Part of it holds: the active template has the id of a persisted one, so a
\* deleted template is never active.
ActiveTemplateIdIsPersisted ==
    IsSome(form.activeTemplate) =>
        \E i \in DOMAIN PersistedTemplates :
            PersistedTemplates[i].id = Get(form.activeTemplate).id

\* C25: the template active for generation is equal in id, name and content
\* to an entry of the persisted template list.
C25_ActiveTemplateIsPersisted ==
    IsSome(form.activeTemplate) =>
        \E i \in DOMAIN PersistedTemplates :
            PersistedTemplates[i] = Get(form.activeTemplate)

\* A generation request is in flight with a template whose content is not
\* the content the persisted template of that id has.
C25_Witness ==
    /\ lastOp = "handleGenerate"
    /\ IsSome(net.gen)
    /\ IsSome(Get(net.gen).template)
    /\ \E i \in DOMAIN PersistedTemplates :
           /\ PersistedTemplates[i].id = Get(Get(net.gen).template).id
           /\ PersistedTemplates[i].content = editedBody
           /\ Get(Get(net.gen).template).content = templateBody

\* ------------------------------------------------------------------ C26
\* Streams whose MediaRecorder was told to stop.
StoppingStreams == mic.live["stopping"] + mic.orphan["stopping"]

\* The recorder with the tab buttons: start and stop clicks, grants and
\* refusals, the recorder unmounted by a switch to the library, and the
\* callbacks of mounted and unmounted recorders. A start click comes when no
\* recorder that was told to stop is still stopping. Every microphone
\* request is answered, every browser callback fires, every extraction call
\* answers, and a user who sees the stop button clicks it.
NextRelease ==
    \/ StoppingStreams = 0 /\ startRecording
    \/ startRecordingGranted
    \/ startRecordingDenied
    \/ orphanRecordingGranted
    \/ orphanRecordingDenied
    \/ stopRecording
    \/ \E owner \in {"live", "orphan"} : onstop(owner)
    \/ \E owner \in {"live", "orphan"} : onloadend(owner)
    \/ \E owner \in {"live", "orphan"}, resp \in ExtractionResponses :
           handleAudioCapturedSettled(owner, resp)
    \/ \E tab \in {"create", "library"} : setActiveTab(tab)

ReleaseFairness ==
    /\ WF_vars(startRecordingGranted \/ startRecordingDenied)
    /\ WF_vars(orphanRecordingGranted \/ orphanRecordingDenied)
    /\ WF_vars(stopRecording)
    /\ \A owner \in {"live", "orphan"} :
           /\ WF_vars(onstop(owner))
           /\ WF_vars(onloadend(owner))
           /\ WF_vars(\E resp \in ExtractionResponses :
                          handleAudioCapturedSettled(owner, resp))

SpecRelease == Init /\ [][NextRelease]_vars /\ ReleaseFairness

\* The explicit stop releases: a recorder that was told to stop fires onstop,
\* which stops the tracks of its stream.
StoppedStreamReleased == (StoppingStreams > 0) ~> (StoppingStreams = 0)

\* C26: every microphone stream that was acquired is eventually released:
\* whenever streams are open, a moment follows at which none is.
C26_EveryStreamReleased == (OpenStreams > 0) ~> (OpenStreams = 0)

\* The recorder was unmounted while recording: with no request and no
\* callback pending, its stream is open and its MediaRecorder records on.
C26_Witness ==
    /\ activeTab = "library"
    /\ mic.orphan["recording"] = 1
    /\ mic.orphan["stopping"] = 0
    /\ mic.pending = 0
    /\ mic.orphanPending = 0
    /\ OpenStreams = 1

\* ------------------------------------------------------------------ C27
\* A backend whose script greets the owner and names the business of the
\* input it was asked about.
echoScript(owner, business) ==
    <<"[", "0", "]", " ">> \o owner \o <<" ">> \o business

echoAnswer(input) ==
    [kind |-> "text",
     text |-> jsonText(Some([script |-> Some(echoScript(input.ownerName,
                                                         input.businessName)),
                             followUp |-> Some(followUpText)]))]

\* The owner name typed as "ab" or "cd", the other text fields as "ab", the
\* submit, the answer to it, the save button, and, once a result is shown,
\* one recording at a time whose extraction may overwrite the owner name
\* with "cd".
NextSaveAfterEdit ==
    \/ \E value \in {validText, extractedText} : updateField("ownerName", value)
    \/ \E field \in TextFields \ {"ownerName"} : updateField(field, validText)
    \/ handleGenerate
    \/ IsSome(net.gen) /\ handleGenerateSettled(echoAnswer(Get(net.gen).input))
    \/ \E t \in 1..MaxNow : handleSaveToLibrary(t)
    \/ RecorderAtRest /\ IsSome(form.result) /\ startRecording
    \/ startRecordingGranted
    \/ stopRecording
    \/ onstop("live")
    \/ onloadend("live")
    \/ \E resp \in ExtractionResponses : handleAudioCapturedSettled("live", resp)

SpecSaveAfterEdit == Init /\ [][NextSaveAfterEdit]_vars

\* C27: the entry a save stores carries the owner name, the business name
\* and the title of the input its script text was generated from.
C27_SavedNamesAreGenerationInput ==
    [][ScriptSaved =>
           /\ PersistedScripts'[1].content =
                  echoScript(PersistedScripts'[1].ownerName,
                             PersistedScripts'[1].businessName)
           /\ PersistedScripts'[1].title =
                  PersistedScripts'[1].ownerName \o <<" ", "@", " ">>
                      \o PersistedScripts'[1].businessName]_vars

\* A script generated for "ab" was saved after the owner name was changed to
\* "cd": the entry's script greets "ab", its owner name and title say "cd".
C27_Witness ==
    /\ lastOp = "handleSaveToLibrary"
    /\ PersistedScripts # <<>>
    /\ PersistedScripts[1].content = echoScript(validText, validText)
    /\ PersistedScripts[1].ownerName = extractedText
    /\ PersistedScripts[1].title = extractedText \o <<" ", "@", " ">> \o validText

\* ------------------------------------------------------------------ C28
\* Generating, saving, switching tabs and reloading, with every answer the
\* backend can give to a generation call.
NextSaveOnce ==
    \/ \E edit \in WorkflowEdits : updateField(edit[1], edit[2])
    \/ handleGenerate
    \/ \E resp \in GenerateResponses : handleGenerateSettled(resp)
    \/ orphanGenerateSettled
    \/ \E t \in 1..MaxNow : handleSaveToLibrary(t)
    \/ \E tab \in {"create", "library"} : setActiveTab(tab)
    \/ Reload

SpecSaveOnce == Init /\ [][NextSaveOnce]_vars

\* The displayed result has been saved: the save button is disabled.
SavedAlready == IsSome(form.result) /\ form.isSavedInLibrary

\* C28: a result is added to the script list at most once. The list grows
\* only by a save of the displayed result, one entry at a time; the save
\* marks the result as saved; a result marked as saved cannot be saved; and
\* the mark goes only when a generation call produces a new result or when
\* the form, and the result with it, is gone.
C28_SavedAtMostOnce ==
    [][/\ PersistedScripts' # PersistedScripts =>
              /\ ScriptSaved
              /\ Len(PersistedScripts') = Len(PersistedScripts) + 1
              /\ ~SavedAlready
              /\ SavedAlready'
              /\ form'.result = form.result
       /\ (SavedAlready /\ ~SavedAlready') =>
              \/ ~IsSome(form'.result)
              \/ lastOp' = "handleGenerateSettled" /\ IsSome(net.gen)]_vars

\* A second result was generated and saved after the first: two entries,
\* one per result, and the save button is disabled again.
C28_Witness ==
    /\ lastOp = "handleSaveToLibrary"
    /\ SavedAlready
    /\ Len(PersistedScripts) = 2
    /\ now = 2

\* ------------------------------------------------------------------ C29
\* A returning visitor whose stored reference is the stored script: the
\* library with its delete button, the choice and the clearing of a
\* reference, generation and saving, tab switches and reloads.
NextDeleteReference ==
    \/ \E edit \in WorkflowEdits : updateField(edit[1], edit[2])
    \/ handleGenerate
    \/ handleGenerateSettled(scriptAnswer)
    \/ orphanGenerateSettled
    \/ \E t \in 1..MaxNow : handleSaveToLibrary(t)
    \/ \E tab \in {"create", "library"} : setActiveTab(tab)
    \/ \E script \in SeqElems(library.scripts) : handleUseAsReference(script)
    \/ onClearReference
    \/ \E script \in SeqElems(library.scripts), confirmed \in BOOLEAN :
           LibraryView_handleDelete(script.id, confirmed)
    \/ Reload

SpecDeleteReference == InitReturning /\ [][NextDeleteReference]_vars

\* What the storage holds for the reference in memory.
StoredReference(ref) ==
    IF IsSome(ref) THEN Some(JSONstringify(Get(ref))) ELSE None

\* C29: a delete changes the style reference neither in memory nor in
\* storage; the stored reference is always the one in memory, whole; the
\* reference changes only when the user chooses one in the library or clears
\* it in the generator, a reload included; and a generation request passes
\* the reference in memory, whether its script is still in the library or
\* not.
C29_DeleteKeepsReference ==
    /\ [](localStorage.app_active_reference = StoredReference(selectedReference))
    /\ [][/\ lastOp' \in {"LibraryView_handleDelete", "LibraryView_handleDeleteDeclined"} =>
                /\ selectedReference' = selectedReference
                /\ localStorage'.app_active_reference
                       = localStorage.app_active_reference
          /\ selectedReference' # selectedReference =>
                \/ activeTab = "library" /\ activeTab' = "create"
                       /\ IsSome(selectedReference')
                \/ activeTab = "create" /\ activeTab' = "create"
                       /\ ~IsSome(selectedReference')
          /\ lastOp' = "handleGenerate" /\ IsSome(net'.gen) /\ ~IsSome(net.gen) =>
                Get(net'.gen).reference = selectedReference]_vars

\* The script chosen as reference was deleted from the library: a
\* generation request is in flight with that script, whole, as its
\* reference, and the storage holds it.
C29_Witness ==
    /\ lastOp = "handleGenerate"
    /\ IsSome(net.gen)
    /\ Get(net.gen).reference = Some(earlierScript)
    /\ PersistedScripts = <<>>
    /\ selectedReference = Some(earlierScript)
    /\ localStorage.app_active_reference = Some(JSONstringify(earlierScript))

\* ------------------------------------------------------------------ C30
\* Script texts of up to MaxTextLen characters out of "[", "]", a letter and
\* a line break: nested, adjacent, unclosed and unopened brackets, and
\* brackets on different lines.
BracketChars == {"[", "]", "a", "\n"}

BracketTexts == UNION {[1..n -> BracketChars] : n \in 0..MaxTextLen}

NextStrip == \E text \in BracketTexts : callCleanText(text)

SpecStrip == Init /\ [][NextStrip]_vars

\* s holds a marker: a "[" followed later on its line by a "]".
HoldsMarker(s) ==
    \E i \in 1..Len(s), j \in 1..Len(s) :
        /\ i < j
        /\ s[i] = "["
        /\ s[j] = "]"
        /\ \A k \in i..j : s[k] # "\n"

\* C30: stripping the timing markers of any text leaves no marker, and
\* stripping the stripped text changes nothing; so for the replace alone as
\* for the replace followed by the trim.
C30_StripIdempotentComplete ==
    lastOp = "cleanText" =>
        /\ ~HoldsMarker(Get(lastData).stripped)
        /\ ~HoldsMarker(Get(lastData).clean)
        /\ stripMarkers(Get(lastData).stripped) = Get(lastData).stripped
        /\ cleanText(Get(lastData).clean) = Get(lastData).clean

\* Nested brackets: of "[[]]" the marker "[[]" is removed and "]" stays.
C30_Witness ==
    /\ lastOp = "cleanText"
    /\ Get(lastData).text = <<"[", "[", "]", "]">>
    /\ Get(lastData).stripped = <<"]">>
    /\ Get(lastData).clean = <<"]">>

====
